---- MODULE Spec2Model ----
(***************************************************************************)
(* hdlproto: a cycle-accurate HDL simulator kernel.                        *)
(*                                                                         *)
(* The repository carries two simulation kernels side by side:             *)
(*   "exector": simulator.py (Simulator._half_clock, _SimulationExector),  *)
(*              function_manager.py, signal/signal_manager.py,             *)
(*              signal/signal.py, event/*, module/module.py                *)
(*   "region":  region.py (_ActiveRegion, _NBARegion), module.py           *)
(*              (Trigger), simulation_context.py, signal.py; the step      *)
(*              loop that drives the regions is not part of the sources    *)
(*              and is taken from section 4.8 of the specification.        *)
(* The variable kernel selects the one that a behaviour runs.              *)
(***************************************************************************)
EXTENDS Integers, Sequences, FiniteSets, TLC

\* ------------------------------------------------------------------ bounds
MaxSteps == 3          \* number of step calls the test code makes in one run
MaxDrives == 2         \* number of writes the test code makes between two step calls
MaxCounterSteps == 17  \* step calls of a run of the 4-bit counter (one wrap-around)
MaxShiftSteps == 5     \* step calls of a run of the three-stage shift register
MaxPassThroughSteps == 4  \* step calls of the run of the pass-through module
MaxDualEdgeSteps == 7  \* step calls of the run of the dual-edge flops
MaxWidth == 2          \* widest signal of the runs of the signal API on its own

\* --------------------------------------------------------- program constants
max_comb_loops == 4    \* SimConfig.max_comb_loops as set by test_signal_unstable_error_is_raised
NoneVal == -1          \* Python None in an integer slot (_pending is None)

\* ------------------------------------------------------------- expressions
\* The bodies of the user's processes are straight-line guarded assignments
\* over a small expression language; every read is a read of .w / .r .
Const(k)     == [op |-> "const", x |-> "", y |-> "", k |-> k]
Sig(x)       == [op |-> "sig",   x |-> x,  y |-> "", k |-> 0]
Not(x)       == [op |-> "not",   x |-> x,  y |-> "", k |-> 0]
Add(x, k)    == [op |-> "add",   x |-> x,  y |-> "", k |-> k]
AndNot(x, y) == [op |-> "andnot", x |-> x, y |-> y,  k |-> 0]
AddMod(x, k, m) == [op |-> "addmod", x |-> x, y |-> "", k |-> k, m |-> m]

Always     == Const(1)
Asg(t, e)      == [g |-> Always, t |-> t, e |-> e]
AsgIf(g, t, e) == [g |-> g, t |-> t, e |-> e]

W(width, init, tb) == [kind |-> "wire", width |-> width, init |-> init, tb |-> tb, sign |-> FALSE]
R(width, init)     == [kind |-> "reg",  width |-> width, init |-> init, tb |-> FALSE, sign |-> FALSE]
P(dir, target)     == [dir |-> dir, target |-> target]
Comb(name, body)       == [name |-> name, body |-> body]
FF(name, trig, body)   == [name |-> name, trig |-> trig, body |-> body]
POS(s) == [edge |-> "POS", sig |-> s]
NEG(s) == [edge |-> "NEG", sig |-> s]

\* ------------------------------------------------------------------ designs
\* A design is what the user declares: terminal signals, port aliases,
\* always_comb and always_ff processes (in declaration order) and the writes
\* the test code may issue between steps.  kernels names the kernels whose
\* declaration surface can express the design; dir is Python's dir() order
\* (alphabetical) of the process names, the order in which the exector's
\* environment builder collects them.
Both == {"exector", "region"}

Designs ==
  [ nba |->
      [ sigs  |-> [clk |-> W(1, 0, TRUE), r0 |-> R(4, 0), r1 |-> R(4, 0), r2 |-> R(4, 0)],
        ports |-> [ck |-> P("in", "clk")],
        comb  |-> << >>,
        ff    |-> << FF("logic", <<POS("ck")>>, <<Asg("r0", Const(10)), Asg("r2", Add("r0", 1))>>),
                     FF("other", <<POS("ck")>>, <<Asg("r1", Sig("r0"))>>) >>,
        dir   |-> <<"logic", "other">>,
        drives |-> {}, kernels |-> Both ],
    pass |->
      [ sigs  |-> [clk |-> W(1, 0, TRUE), src |-> W(2, 0, TRUE), dst |-> W(2, 0, TRUE),
                   mid |-> W(2, 0, FALSE), q |-> R(2, 0)],
        ports |-> [ck |-> P("in", "clk"), inp |-> P("in", "src"), outp |-> P("out", "dst")],
        comb  |-> << Comb("front", <<Asg("mid", Sig("inp"))>>),
                     Comb("drive", <<Asg("outp", Const(0)), Asg("outp", Sig("q"))>>) >>,
        ff    |-> << FF("capture", <<POS("ck")>>, <<Asg("q", Sig("mid"))>>) >>,
        dir   |-> <<"capture", "drive", "front">>,
        drives |-> {<<"src", 1>>, <<"src", 2>>, <<"mid", 3>>, <<"q", 3>>, <<"outp", 3>>},
        kernels |-> Both ],
    osc |->
      [ sigs  |-> [clk |-> W(1, 0, TRUE), osc |-> W(1, 0, FALSE)],
        ports |-> [ck |-> P("in", "clk")],
        comb  |-> << Comb("oscillate", <<Asg("osc", Not("osc"))>>) >>,
        ff    |-> << >>,
        dir   |-> <<"oscillate">>,
        drives |-> {}, kernels |-> Both ],
    conflict |->
      [ sigs  |-> [clk |-> W(1, 0, TRUE), bus |-> W(1, 0, FALSE)],
        ports |-> << >>,
        comb  |-> << Comb("drive_one", <<Asg("bus", Const(1))>>),
                     Comb("drive_zero", <<Asg("bus", Const(0))>>) >>,
        ff    |-> << >>,
        dir   |-> <<"drive_one", "drive_zero">>,
        drives |-> {}, kernels |-> Both ],
    dual |->
      [ sigs  |-> [clk |-> W(1, 0, TRUE), r |-> R(1, 0)],
        ports |-> [ck |-> P("in", "clk")],
        comb  |-> << >>,
        ff    |-> << FF("pos_logic", <<POS("ck")>>, <<Asg("r", Const(1))>>),
                     FF("neg_logic", <<NEG("ck")>>, <<Asg("r", Const(0))>>) >>,
        dir   |-> <<"neg_logic", "pos_logic">>,
        drives |-> {}, kernels |-> Both ],
    combreg |->
      [ sigs  |-> [clk |-> W(1, 0, TRUE), reg |-> R(1, 0)],
        ports |-> << >>,
        comb  |-> << Comb("comb_logic", <<Asg("reg", Const(1))>>) >>,
        ff    |-> << >>,
        dir   |-> <<"comb_logic">>,
        drives |-> {}, kernels |-> Both ],
    combregp |->
      [ sigs  |-> [clk |-> W(1, 0, TRUE), reg |-> R(1, 0)],
        ports |-> [ck |-> P("in", "clk"), po |-> P("outreg", "reg")],
        comb  |-> << Comb("comb_logic", <<Asg("po", Const(1))>>) >>,
        ff    |-> << >>,
        dir   |-> <<"comb_logic">>,
        drives |-> {}, kernels |-> {"region"} ],
    \* the same under Simulator(config, tb), whose Output takes a Reg
    combrego |->
      [ sigs  |-> [clk |-> W(1, 0, TRUE), reg |-> R(1, 0)],
        ports |-> [po |-> P("out", "reg")],
        comb  |-> << Comb("comb_logic", <<Asg("po", Const(1))>>) >>,
        ff    |-> << >>,
        dir   |-> <<"comb_logic">>,
        drives |-> {}, kernels |-> {"exector"} ],
    ffwire |->
      [ sigs  |-> [clk |-> W(1, 0, TRUE), out |-> W(1, 0, FALSE)],
        ports |-> [ck |-> P("in", "clk")],
        comb  |-> << >>,
        ff    |-> << FF("ff_logic", <<POS("ck")>>, <<Asg("out", Const(1))>>) >>,
        dir   |-> <<"ff_logic">>,
        drives |-> {}, kernels |-> Both ],
    ffwirep |->
      [ sigs  |-> [clk |-> W(1, 0, TRUE), out |-> W(1, 0, TRUE)],
        ports |-> [ck |-> P("in", "clk"), po |-> P("out", "out")],
        comb  |-> << >>,
        ff    |-> << FF("ff_logic", <<POS("ck")>>, <<Asg("po", Const(1))>>) >>,
        dir   |-> <<"ff_logic">>,
        drives |-> {}, kernels |-> Both ],
    alias |->
      [ sigs  |-> [clk |-> W(1, 0, TRUE), bus |-> W(1, 0, TRUE)],
        ports |-> [ck |-> P("in", "clk"), po1 |-> P("out", "bus"), po2 |-> P("out", "po1")],
        comb  |-> << Comb("drive_one", <<Asg("po1", Const(1))>>),
                     Comb("drive_zero", <<Asg("po2", Const(0))>>) >>,
        ff    |-> << >>,
        dir   |-> <<"drive_one", "drive_zero">>,
        drives |-> {}, kernels |-> Both ],
    direct |->
      [ sigs  |-> [clk |-> W(1, 0, TRUE), bus |-> W(1, 0, FALSE)],
        ports |-> [ck |-> P("in", "clk"), po1 |-> P("out", "bus")],
        comb  |-> << Comb("drive_one", <<Asg("bus", Const(1))>>),
                     Comb("drive_zero", <<Asg("po1", Const(0))>>) >>,
        ff    |-> << >>,
        dir   |-> <<"drive_one", "drive_zero">>,
        drives |-> {}, kernels |-> Both ],
    derived |->
      [ sigs  |-> [clk |-> W(1, 0, TRUE), d |-> W(1, 0, FALSE), t |-> R(1, 0),
                   q |-> R(1, 0), q2 |-> R(1, 0)],
        ports |-> [ck |-> P("in", "clk"), di |-> P("in", "d")],
        comb  |-> << Comb("mk", <<Asg("d", Sig("t"))>>) >>,
        ff    |-> << FF("tgl", <<POS("ck")>>, <<Asg("t", Not("t"))>>),
                     FF("ond", <<POS("di")>>, <<Asg("q", Const(1))>>),
                     FF("ont", <<POS("t")>>, <<Asg("q2", Const(1))>>) >>,
        dir   |-> <<"mk", "ond", "ont", "tgl">>,
        drives |-> {}, kernels |-> Both ],
    \* a combinational process of the testbench drives a testbench wire
    tbcomb |->
      [ sigs  |-> [clk |-> W(1, 0, TRUE), x |-> W(2, 0, TRUE), y |-> W(2, 0, TRUE)],
        ports |-> [ck |-> P("in", "clk")],
        comb  |-> << Comb("follow", <<Asg("y", Sig("x"))>>) >>,
        ff    |-> << >>,
        dir   |-> <<"follow">>,
        drives |-> {<<"x", 1>>, <<"x", 2>>}, kernels |-> Both ],
    \* tests/test_simulation.py: PassThrough / TbPassThrough
    passthrough |->
      [ sigs  |-> [clk |-> W(1, 0, TRUE), reset |-> W(1, 1, TRUE), src |-> W(8, 0, TRUE),
                   dst |-> W(8, 0, TRUE), reg |-> R(8, 0)],
        ports |-> [ck |-> P("in", "clk"), rst |-> P("in", "reset"), inp |-> P("in", "src"),
                   outp |-> P("out", "dst")],
        comb  |-> << Comb("drive", <<Asg("outp", Sig("reg"))>>) >>,
        ff    |-> << FF("capture", <<POS("ck")>>,
                        << AsgIf(Sig("rst"), "reg", Const(0)),
                           AsgIf(Not("rst"), "reg", Sig("inp")) >>) >>,
        dir   |-> <<"capture", "drive">>,
        drives |-> {<<"reset", 0>>, <<"src", 5>>, <<"src", 7>>, <<"src", 1>>},
        kernels |-> Both, steps |-> MaxPassThroughSteps ],
    \* tests/test_simulation.py: DualEdge / TbDualEdge
    dualedge |->
      [ sigs  |-> [clk |-> W(1, 0, TRUE), reset |-> W(1, 1, TRUE), pos_wire |-> W(4, 0, TRUE),
                   neg_wire |-> W(4, 0, TRUE), pos_reg |-> R(4, 0), neg_reg |-> R(4, 0)],
        ports |-> [ck |-> P("in", "clk"), rst |-> P("in", "reset"),
                   pos_out |-> P("out", "pos_wire"), neg_out |-> P("out", "neg_wire")],
        comb  |-> << Comb("drive", <<Asg("pos_out", Sig("pos_reg")), Asg("neg_out", Sig("neg_reg"))>>) >>,
        ff    |-> << FF("pos_logic", <<POS("ck")>>,
                        << AsgIf(Sig("rst"), "pos_reg", Const(0)),
                           AsgIf(Not("rst"), "pos_reg", AddMod("pos_reg", 1, 16)) >>),
                     FF("neg_logic", <<NEG("ck")>>,
                        << AsgIf(Sig("rst"), "neg_reg", Const(0)),
                           AsgIf(Not("rst"), "neg_reg", Sig("pos_reg")) >>) >>,
        dir   |-> <<"drive", "neg_logic", "pos_logic">>,
        drives |-> {<<"reset", 0>>}, kernels |-> Both, steps |-> MaxDualEdgeSteps ],
    \* the oscillator next to a testbench wire driven by a testbench process
    osctb |->
      [ sigs  |-> [clk |-> W(1, 0, TRUE), osc |-> W(1, 0, FALSE), y |-> W(2, 0, TRUE)],
        ports |-> [ck |-> P("in", "clk")],
        comb  |-> << Comb("follow", <<Asg("y", Const(1))>>),
                     Comb("oscillate", <<Asg("osc", Not("osc"))>>) >>,
        ff    |-> << >>,
        dir   |-> <<"follow", "oscillate">>,
        drives |-> {}, kernels |-> Both ]
  ]

DesignNames == DOMAIN Designs

\* The worked examples of the test suite, simulated over longer runs.
Examples ==
  [ \* tests/test_simulation.py: Counter / TbCounter
    counter |->
      [ sigs  |-> [clk |-> W(1, 0, TRUE), reset |-> W(1, 1, TRUE), enable |-> W(1, 1, TRUE),
                   count_out |-> W(4, 0, TRUE), count |-> R(4, 0)],
        ports |-> [ck |-> P("in", "clk"), rst |-> P("in", "reset"), en |-> P("in", "enable"),
                   co |-> P("out", "count_out")],
        comb  |-> << Comb("comb", <<Asg("co", Sig("count"))>>) >>,
        ff    |-> << FF("seq", <<POS("ck")>>,
                        << AsgIf(Sig("rst"), "count", Const(0)),
                           AsgIf(AndNot("rst", "en"), "count", AddMod("count", 1, 16)) >>) >>,
        dir   |-> <<"comb", "seq">>,
        drives |-> {<<"reset", 0>>, <<"enable", 0>>, <<"enable", 1>>},
        kernels |-> Both, steps |-> MaxCounterSteps ],
    \* tests/test_advanced_modules.py: ShiftRegister / TbShiftRegister
    shift |->
      [ sigs  |-> [clk |-> W(1, 0, TRUE), din |-> W(1, 0, TRUE), dout |-> W(1, 0, TRUE),
                   stage0 |-> R(1, 0), stage1 |-> R(1, 0), stage2 |-> R(1, 0)],
        ports |-> [ck |-> P("in", "clk"), di |-> P("in", "din"), do |-> P("out", "dout")],
        comb  |-> << Comb("output_logic", <<Asg("do", Sig("stage2"))>>) >>,
        ff    |-> << FF("shift_logic", <<POS("ck")>>,
                        << Asg("stage2", Sig("stage1")), Asg("stage1", Sig("stage0")),
                           Asg("stage0", Sig("di")) >>) >>,
        dir   |-> <<"output_logic", "shift_logic">>,
        drives |-> {<<"din", 0>>, <<"din", 1>>},
        kernels |-> Both, steps |-> MaxShiftSteps ],
    \* the same register with the three assignments in the opposite order
    shiftrev |->
      [ sigs  |-> [clk |-> W(1, 0, TRUE), din |-> W(1, 0, TRUE), dout |-> W(1, 0, TRUE),
                   stage0 |-> R(1, 0), stage1 |-> R(1, 0), stage2 |-> R(1, 0)],
        ports |-> [ck |-> P("in", "clk"), di |-> P("in", "din"), do |-> P("out", "dout")],
        comb  |-> << Comb("output_logic", <<Asg("do", Sig("stage2"))>>) >>,
        ff    |-> << FF("shift_logic", <<POS("ck")>>,
                        << Asg("stage0", Sig("di")), Asg("stage1", Sig("stage0")),
                           Asg("stage2", Sig("stage1")) >>) >>,
        dir   |-> <<"output_logic", "shift_logic">>,
        drives |-> {<<"din", 0>>, <<"din", 1>>},
        kernels |-> Both, steps |-> MaxShiftSteps ]
  ]

\* ---------------------------------------------------------------- state
VARIABLES
  kernel,        \* "exector" | "region"
  design,        \* name of the design under simulation
  testcase_run,  \* the latest testcase() call: its argument and the test cases it invoked
  net,           \* the elaborated design: signals, ports and processes
  value,         \* terminal -> committed value (_value)
  pending,       \* terminal -> staged value or NoneVal (_pending)
  prev_trig,     \* exector: terminal -> _prev_value_for_trigger
  prev_write,    \* exector: terminal -> _prev_value_for_write
  snap_cycle,    \* region: terminal -> _snapshot_cycle_val
  snap_delta,    \* region: terminal -> _snapshot_delta_val
  snap_eps,      \* region: terminal -> _snapshot_epsilon_val
  writers,       \* exector: written object -> last recorded writer ("" = no entry)
  write_log,     \* region: written object -> set of recorded writers
  cur,           \* current function ("None" when no process is executing)
  phase,         \* region: _current_phase ("None" | "COMB" | "FF")
  delta_cycle,   \* region: _delta_cycle flag
  triggered,     \* exector: _always_ff_functions_triggered
  pc,            \* position of the step in progress ("idle" between calls)
  halves,        \* half steps the call in progress still has to run
  iter,          \* loop counter of the bounded loop in progress
  idx,           \* index of the next process of the list being executed
  err,           \* exception raised by the last call ("none" if it returned)
  steps,         \* step calls made so far
  drives,        \* test-code writes made since the last step call
  fired,         \* history: always_ff processes invoked during the current half step
  wrote,         \* history: written object -> processes that wrote it in this half step
  lastDrive,     \* history: the object of the latest test-code write since the last call
  cycleBase,     \* history: committed values when the current half step began
  nbaBase,       \* history: committed values when the current always_ff sweep began
  combBase,      \* history: [value, pending] at the entry of the combinational loop
  call,          \* history: the latest call: its kind (1 half_clock, 2 clock) and the
                 \*          number of invocations of each sequential process during it
  tally,         \* history: rising clock edges taken with enable high since the last
                 \*          edge with reset high
  edgeBase       \* history: the committed values the sequential processes read
                 \*          when the sweep of the latest rising clock edge began

vars == << kernel, design, testcase_run, net, value, pending, prev_trig, prev_write, snap_cycle,
           snap_delta, snap_eps, writers, write_log, cur, phase, delta_cycle,
           triggered, pc, halves, iter, idx, err, steps, drives, fired, wrote,
           lastDrive, cycleBase, nbaBase, combBase, call, tally, edgeBase >>

D == net
\* the number of step calls the test code of the design makes
StepLimit == IF "steps" \in DOMAIN net THEN net.steps ELSE MaxSteps
Terminals == DOMAIN D.sigs
Ports     == DOMAIN D.ports
Names     == Terminals \cup Ports

\* _Port.__init__ / Input.__init__: an alias resolves to its terminal signal
RECURSIVE TermOf(_, _)
TermOf(d, x) == IF x \in DOMAIN d.ports THEN TermOf(d, d.ports[x].target) ELSE x
Term(x) == TermOf(D, x)
\* an alias that keeps the width 1 of _Signal.__init__
WidthOfItself(x) == IF x \in DOMAIN D.ports THEN 1 ELSE D.sigs[x].width
\* _Port.__init__ / _get_width: the width of the terminal
Width(x) == D.sigs[Term(x)].width
IsReg(x) == D.sigs[Term(x)].kind = "reg"
IsPort(x) == x \in Ports
\* an alias kind without read-only inputs
PortDirWritable(x) == IF IsPort(x) /\ D.ports[x].dir # "in" THEN D.ports[x].dir ELSE "none"
PortDir(x) == IF IsPort(x) THEN D.ports[x].dir ELSE "none"

Pow2(n) == 2 ^ n
Mask(v, w) == v % Pow2(w)

\* history bookkeeping: process f wrote the objects of set S in this half step
Wrote(w, S, f) == [x \in DOMAIN w |-> IF x \in S THEN w[x] \cup {f} ELSE w[x]]
NoWrites == [x \in Names |-> {}]

\* The process lists in the order in which each kernel executes them.
ProcNamed(n) ==
  LET c == SelectSeq(D.comb, LAMBDA p : p.name = n)
      f == SelectSeq(D.ff, LAMBDA p : p.name = n)
  IN  IF Len(c) > 0 THEN c[1] ELSE f[1]
IsCombName(n) == \E i \in 1..Len(D.comb) : D.comb[i].name = n
IsFFName(n)   == \E i \in 1..Len(D.ff) : D.ff[i].name = n
\* _EnvironmentBuilder._setup_function_manager: walks module._dir()
AlwaysCombFunctions == SelectSeq(D.dir, IsCombName)
AlwaysFFFunctions   == SelectSeq(D.dir, IsFFName)
\* _FunctionList._append_always_comb / _append_always_ff: declaration order
RegionComb == [i \in 1..Len(D.comb) |-> D.comb[i].name]
RegionFF   == [i \in 1..Len(D.ff) |-> D.ff[i].name]

\* ------------------------------------------------------- reading a signal
\* exector: _Signal._get -> _SignalSignOperator._to_integer (unsigned view)
\* a signed read that leaves out the sign bit
ToSignedMagnitude(v, w) == v % Pow2(w - 1)
\* _SignalSignOperator.__to_signed: the low w bits in two's complement
ToSigned(v, w) == (v % Pow2(w - 1)) - ((v \div Pow2(w - 1)) % 2) * Pow2(w - 1)
IsSigned(x) == D.sigs[Term(x)].sign
\* exector: _Signal._get returns _to_integer(_value)
GetExector(val, x) ==
  IF IsSigned(x) THEN ToSigned(val[Term(x)], Width(x)) ELSE Mask(val[Term(x)], Width(x))
\* a getter that would return the staged value once one is pending
GetRegionStaged(val, x) ==
  IF pending[Term(x)] # NoneVal THEN pending[Term(x)] ELSE val[Term(x)]
\* region: Wire.w / Reg.r / _Port.w getters return _value of the terminal
GetRegion(val, x) == val[Term(x)]
Read(k, val, x) == IF k = "exector" THEN GetExector(val, x) ELSE GetRegion(val, x)

\* the value of an expression of a process body; every operand is a read
Eval(k, val, e) ==
  CASE e.op = "const"  -> e.k
    [] e.op = "sig"    -> Read(k, val, e.x)
    [] e.op = "not"    -> IF Read(k, val, e.x) = 0 THEN 1 ELSE 0
    [] e.op = "add"    -> Read(k, val, e.x) + e.k
    [] e.op = "andnot" -> IF Read(k, val, e.x) = 0 /\ Read(k, val, e.y) # 0 THEN 1 ELSE 0
    [] e.op = "addmod" -> (Read(k, val, e.x) + e.k) % e.m

\* ================================================================ exector
\* _EnvironmentBuilder._collect_and_configure_signals: the type under which
\* a declared object is entered in the signal list ("" = not entered)
SignalType(x) ==
  IF IsPort(x) THEN (IF D.ports[x].dir = "in" THEN "INPUT" ELSE "OUTPUT")
  ELSE IF D.sigs[x].tb THEN (IF D.sigs[x].kind = "wire" THEN "EXTERNAL" ELSE "")
  ELSE IF D.sigs[x].kind = "wire" THEN "WIRE" ELSE "REG"

\* terminals reached by the list entries of the given types
Reached(types) == {t \in Terminals : \E x \in Names : Term(x) = t /\ SignalType(x) \in types}

\* _Signal._update applied to the entries of the given types
Update(val, pend, types) ==
  LET S == Reached(types)
  IN  [ value   |-> [t \in Terminals |-> IF t \in S /\ pend[t] # NoneVal
                                         THEN pend[t] ELSE val[t]],
        pending |-> [t \in Terminals |-> IF t \in S THEN NoneVal ELSE pend[t]],
        unstable |-> \E t \in S : pend[t] # NoneVal ]

\* an external commit that leaves every staged value staged
UpdateExternalsLate(val, pend) == [value |-> val, pending |-> pend, unstable |-> FALSE]
\* _SignalManager._update_externals / _update_wires / _update_regs
UpdateExternals(val, pend) == Update(val, pend, {"EXTERNAL"})
\* a wire commit that never reports a change
UpdateWiresQuiet(val, pend) == [Update(val, pend, {"WIRE", "OUTPUT"}) EXCEPT !.unstable = FALSE]
\* Input._update returns False without committing
UpdateWires(val, pend)     == Update(val, pend, {"WIRE", "OUTPUT"})
UpdateRegs(val, pend)      == Update(val, pend, {"REG"})

\* _Signal._set: stage the masked value, or drop the staged value when the
\* new value equals the committed one
Signal_set(val, pend, x, v) ==
  LET nbits == Mask(v, Width(x))
  IN  [pend EXCEPT ![Term(x)] = IF nbits # val[Term(x)] THEN nbits ELSE NoneVal]

\* the _EventSource a write through x carries (Wire.w, Reg.r, Output.w)
WriteSource(x) == IF IsPort(x) THEN "OUTPUT" ELSE IF IsReg(x) THEN "REG" ELSE "WIRE"

\* _SignalManager._validate_access_rules
ValidateAccessRules(x, ph) ==
  IF WriteSource(x) = "REG" /\ ph = "COMB" THEN "SignalInvalidAccess"
  ELSE IF WriteSource(x) \in {"WIRE", "INPUT", "OUTPUT", "EXTERNAL"} /\ ph = "FF"
       THEN "SignalInvalidAccess"
  ELSE "none"

\* _SignalManager._ensure_no_conflict
EnsureNoConflict(wr, x, f) ==
  IF wr[x] # "" /\ wr[x] # f THEN "SignalWriteConflict" ELSE "none"

\* Wire.w / Reg.r / Output.w setter followed by the SIGNAL_WRITE event chain
\* (_EventMediator._handle_signal_write, _SignalManager._handle_signal_write_tracked);
\* L = [pending, writers, err, wrote]; f = "None" for a write made by test code
WriteExector(L, val, x, v, f, ph) ==
  IF PortDir(x) = "in" THEN [L EXCEPT !.err = "AttributeError"]
  ELSE LET staged == [L EXCEPT !.pending = Signal_set(val, L.pending, x, v)]
       IN  IF f = "None" THEN staged
           ELSE IF ValidateAccessRules(x, ph) # "none"
                THEN [staged EXCEPT !.err = ValidateAccessRules(x, ph)]
           ELSE IF EnsureNoConflict(L.writers, x, f) # "none"
                THEN [staged EXCEPT !.err = EnsureNoConflict(L.writers, x, f)]
           ELSE [staged EXCEPT !.writers = [L.writers EXCEPT ![x] = f]]

\* one invocation of a process body under the exector (statements from i on)
RECURSIVE RunExector(_, _, _, _, _, _)
RunExector(L, val, body, i, f, ph) ==
  IF i > Len(body) \/ L.err # "none" THEN L
  ELSE LET st == body[i]
           L2 == IF Eval("exector", val, st.g) # 0
                 THEN [WriteExector(L, val, st.t, Eval("exector", val, st.e), f, ph)
                         EXCEPT !.wrote = L.wrote \cup {st.t}]
                 ELSE L
       IN  RunExector(L2, val, body, i + 1, f, ph)

\* an edge test that matches a change in either direction
IsEdgeMatchExpectedAnyEdge(val, pt, t, edge) == pt[t] # val[t]
\* _Signal._is_edge_match_expected (truth value of the returned object)
IsEdgeMatchExpected(val, pt, t, edge) ==
  \/ edge = "POS" /\ pt[t] = 0 /\ val[t] # 0
  \/ edge = "NEG" /\ pt[t] # 0 /\ val[t] = 0

\* _SignalManager._is_edge_match_expected on the trigger object x:
\*   signal._is_write() and signal._is_edge_match_expected(edge)
\* Input returns the signal's answer; Wire and Output return None, on which
\* the caller's |= raises TypeError; Reg has no such method.
EdgeMatch(val, pt, pw, x, edge) ==
  IF val[Term(x)] = pw[Term(x)] THEN "false"
  ELSE IF PortDir(x) = "in"
       THEN (IF IsEdgeMatchExpected(val, pt, Term(x), edge) THEN "true" ELSE "false")
  ELSE IF IsPort(x) \/ ~IsReg(x) THEN "TypeError"
  ELSE "AttributeError"

\* _FunctionManager._is_always_ff_triggered: the |= over the triggers
RECURSIVE IsAlwaysFFTriggered(_, _, _, _, _, _)
IsAlwaysFFTriggered(val, pt, pw, trig, i, acc) ==
  IF i > Len(trig) THEN acc
  ELSE LET r == EdgeMatch(val, pt, pw, trig[i].sig, trig[i].edge)
       IN  IF r \in {"TypeError", "AttributeError"} THEN r
           ELSE IsAlwaysFFTriggered(val, pt, pw, trig, i + 1,
                                    IF r = "true" THEN "true" ELSE acc)

\* _FunctionManager._extract_triggerd_always_ff: appends to the triggered list
RECURSIVE ExtractTriggerdAlwaysFF(_, _, _, _, _, _)
ExtractTriggerdAlwaysFF(val, pt, pw, funcs, i, T) ==
  IF i > Len(funcs) \/ T.err # "none" THEN T
  ELSE LET r == IsAlwaysFFTriggered(val, pt, pw, ProcNamed(funcs[i]).trig, 1, "false")
       IN  ExtractTriggerdAlwaysFF(val, pt, pw, funcs, i + 1,
             IF r = "true" THEN [T EXCEPT !.list = Append(T.list, funcs[i])]
             ELSE IF r = "false" THEN T
             ELSE [T EXCEPT !.err = r])

\* _SignalManager._is_write: some signal differs from its write snapshot
IsWrite(val, pw) == \E t \in Terminals : val[t] # pw[t]

\* a toggle that always drives the clock high
ToggleValueHigh(k, val) == 1
\* Simulator.clock / half_clock: self._config.clock.w = 0 if self._config.clock.w else 1
ToggleValue(k, val) == IF Read(k, val, "clk") # 0 THEN 0 ELSE 1

\* Simulator._half_clock lines 138-140 after the clock toggle of the caller:
\* _store_stabled_value_for_trigger, _store_stabled_value_for_write, _update_externals
HalfClockPrelude(val, pend, pt) ==
  LET pend1 == Signal_set(val, pend, "clk", ToggleValue("exector", val))
      u     == UpdateExternals(val, pend1)
      S     == Reached({"WIRE", "INPUT", "OUTPUT"})
  IN  [ prev_trig  |-> [t \in Terminals |-> IF t \in S THEN val[t] ELSE pt[t]],
        prev_write |-> val,
        value      |-> u.value,
        pending    |-> u.pending ]

\* the value the test code last gave to x: the staged one when one is staged
Driven(val, pend, x) == IF pend[x] # NoneVal THEN pend[x] ELSE val[x]

\* history bookkeeping of the counter inputs at a clock toggle: a rising edge
\* with reset high clears the tally, one with enable high advances it
TallyAt(t, k, val, pend) ==
  IF {"reset", "enable"} \subseteq Terminals /\ ToggleValue(k, val) = 1
  THEN (IF Driven(val, pend, "reset") # 0 THEN 0
        ELSE IF Driven(val, pend, "enable") # 0 THEN t + 1 ELSE t)
  ELSE t

\* history bookkeeping: the values in force at a rising clock edge are the
\* committed values now, those the sequential processes read, when the sweep
\* of the half step in which the clock rises begins
EdgeBaseAt(eb, rising, now) == IF rising THEN now ELSE eb

\* history bookkeeping: a call of kind n begins with the clock at level c,
\* toggles the clock g times at its entry and has invoked no process yet
NoRuns == [f \in {D.ff[i].name : i \in 1..Len(D.ff)} |-> 0]
CallOf(n, c, g) == [kind |-> n, ran |-> NoRuns, clk0 |-> c, toggles |-> g]

RegionVarsUnchanged == UNCHANGED << snap_cycle, snap_delta, snap_eps, write_log, phase, delta_cycle >>
ExectorVarsUnchanged == UNCHANGED << prev_trig, prev_write, writers, triggered >>

\* no testcase() call has been made
NoTestcaseRun == [name |-> "", ran |-> << >>]

\* the call raised: control returns to the test code with the exception
Raise(e) == /\ pc' = "idle" /\ err' = e /\ halves' = 0 /\ idx' = 1 /\ iter' = 0

\* Simulator.clock (n = 2) / Simulator.half_clock (n = 1) up to the while loop
ExectorStart(n) ==
  /\ kernel = "exector" /\ pc = "idle" /\ steps < StepLimit
  /\ LET h == HalfClockPrelude(value, pending, prev_trig)
     IN  /\ value' = h.value /\ pending' = h.pending
         /\ prev_trig' = h.prev_trig /\ prev_write' = h.prev_write
  /\ pc' = "extract" /\ halves' = n /\ steps' = steps + 1 /\ drives' = 0
  /\ err' = "none" /\ fired' = {} /\ wrote' = NoWrites /\ cycleBase' = value /\ lastDrive' = "" /\ idx' = 1 /\ iter' = 0
  /\ call' = CallOf(n, Read(kernel, value, "clk"), 1) /\ tally' = TallyAt(tally, "exector", value, pending)
  /\ edgeBase' = EdgeBaseAt(edgeBase, ToggleValue("exector", value) = 1,
                            HalfClockPrelude(value, pending, prev_trig).value)
  /\ UNCHANGED << kernel, design, testcase_run, net, writers, triggered, cur, nbaBase, combBase >>
  /\ RegionVarsUnchanged

\* _SimulationExector._extract_triggerd_always_ff
ExectorExtract ==
  /\ kernel = "exector" /\ pc = "extract"
  /\ LET T == ExtractTriggerdAlwaysFF(value, prev_trig, prev_write, AlwaysFFFunctions, 1,
                                      [list |-> triggered, err |-> "none"])
     IN  /\ triggered' = T.list
         /\ IF T.err # "none" THEN Raise(T.err)
            ELSE /\ pc' = "ff" /\ idx' = 1 /\ UNCHANGED << err, halves, iter >>
  /\ nbaBase' = value
  /\ UNCHANGED << kernel, design, testcase_run, net, call, tally, edgeBase, value, pending, prev_trig, prev_write, writers, cur,
                  steps, drives, fired, wrote, lastDrive, combBase , cycleBase >>
  /\ RegionVarsUnchanged

\* _FunctionManager._evaluate_always_ff: the next function of the triggered list
ExectorAlwaysFF ==
  /\ kernel = "exector" /\ pc = "ff" /\ idx <= Len(triggered)
  /\ LET f == triggered[idx]
         L == RunExector([pending |-> pending, writers |-> writers, err |-> "none", wrote |-> {}],
                         value, ProcNamed(f).body, 1, f, "FF")
     IN  /\ pending' = L.pending /\ writers' = L.writers
         /\ fired' = fired \cup {f} /\ wrote' = Wrote(wrote, L.wrote, f)
         /\ call' = [call EXCEPT !.ran[f] = @ + 1]
         /\ IF L.err # "none" THEN Raise(L.err)
            ELSE /\ idx' = idx + 1 /\ UNCHANGED << pc, err, halves, iter >>
  /\ UNCHANGED << kernel, design, testcase_run, net, tally, edgeBase, value, prev_trig, prev_write, triggered, cur,
                  steps, drives, nbaBase, lastDrive, combBase , cycleBase >>
  /\ RegionVarsUnchanged

\* _FunctionManager._evaluate_always_ff: the list is cleared after the loop
ExectorAlwaysFFDone ==
  /\ kernel = "exector" /\ pc = "ff" /\ idx > Len(triggered)
  /\ triggered' = << >>
  /\ combBase' = [value |-> value, pending |-> pending]
  /\ pc' = "comb" /\ idx' = 1 /\ iter' = 0
  /\ UNCHANGED << kernel, design, testcase_run, net, call, tally, edgeBase, value, pending, prev_trig, prev_write, writers, cur,
                  halves, err, steps, drives, fired, nbaBase, wrote, lastDrive , cycleBase >>
  /\ RegionVarsUnchanged

\* _FunctionManager._evaluate_always_comb: the next function of the list
ExectorAlwaysComb ==
  /\ kernel = "exector" /\ pc = "comb" /\ idx <= Len(AlwaysCombFunctions)
  /\ LET f == AlwaysCombFunctions[idx]
         L == RunExector([pending |-> pending, writers |-> writers, err |-> "none", wrote |-> {}],
                         value, ProcNamed(f).body, 1, f, "COMB")
     IN  /\ pending' = L.pending /\ writers' = L.writers
         /\ wrote' = Wrote(wrote, L.wrote, f)
         /\ IF L.err # "none" THEN Raise(L.err)
            ELSE /\ idx' = idx + 1 /\ UNCHANGED << pc, err, halves, iter >>
  /\ UNCHANGED << kernel, design, testcase_run, net, call, tally, edgeBase, value, prev_trig, prev_write, triggered, cur,
                  steps, drives, fired, nbaBase, lastDrive, combBase , cycleBase >>
  /\ RegionVarsUnchanged

\* _SimulationExector._evaluate_always_comb: _update_wires at the end of a
\* pass, return when stable, SignalUnstableError after max_comb_loops passes
ExectorUpdateWires ==
  /\ kernel = "exector" /\ pc = "comb" /\ idx > Len(AlwaysCombFunctions)
  /\ LET u == UpdateWires(value, pending)
     IN  /\ value' = u.value /\ pending' = u.pending
         /\ IF ~u.unstable
            THEN /\ pc' = "regs" /\ idx' = 1 /\ iter' = 0 /\ UNCHANGED << err, halves >>
            ELSE IF iter + 1 >= max_comb_loops THEN Raise("SignalUnstableError")
            ELSE /\ iter' = iter + 1 /\ idx' = 1 /\ UNCHANGED << pc, err, halves >>
  /\ UNCHANGED << kernel, design, testcase_run, net, call, tally, edgeBase, prev_trig, prev_write, writers, triggered, cur,
                  steps, drives, fired, nbaBase, wrote, lastDrive, combBase , cycleBase >>
  /\ RegionVarsUnchanged

\* Simulator._half_clock lines 145-147: _update_reg_to_latest_value, _is_write,
\* _store_stabled_value_for_write; then the loop test, and for Simulator.clock
\* the second toggle and the second _half_clock
ExectorUpdateRegs ==
  /\ kernel = "exector" /\ pc = "regs"
  /\ LET u == UpdateRegs(value, pending)
         is_write == IsWrite(u.value, prev_write)
         h == HalfClockPrelude(u.value, u.pending, prev_trig)
     IN  IF is_write
         THEN /\ value' = u.value /\ pending' = u.pending /\ prev_write' = u.value
              /\ pc' = "extract" /\ UNCHANGED << prev_trig, halves, err, fired, wrote, cycleBase, tally, edgeBase, call >>
         ELSE IF halves > 1
         THEN /\ value' = h.value /\ pending' = h.pending
              /\ prev_trig' = h.prev_trig /\ prev_write' = h.prev_write
              /\ pc' = "extract" /\ halves' = halves - 1 /\ UNCHANGED err
              /\ fired' = {} /\ wrote' = NoWrites /\ cycleBase' = u.value
              /\ tally' = TallyAt(tally, "exector", u.value, u.pending)
              /\ edgeBase' = EdgeBaseAt(edgeBase, ToggleValue("exector", u.value) = 1, h.value)
              /\ call' = [call EXCEPT !.toggles = @ + 1]
         ELSE /\ value' = u.value /\ pending' = u.pending /\ prev_write' = u.value
              /\ pc' = "idle" /\ halves' = 0 /\ UNCHANGED << prev_trig, err, fired, wrote, cycleBase, tally, edgeBase, call >>
  /\ idx' = 1 /\ iter' = 0
  /\ UNCHANGED << kernel, design, testcase_run, net, writers, triggered, cur, steps, drives, nbaBase,
                  lastDrive, combBase >>
  /\ RegionVarsUnchanged

\* a write by test code between two calls: tb.sig.w = v (or .r = v)
ExectorDrive(x, v) ==
  /\ kernel = "exector" /\ pc = "idle" /\ drives < MaxDrives /\ steps < StepLimit
  /\ LET L == WriteExector([pending |-> pending, writers |-> writers, err |-> "none", wrote |-> {}],
                           value, x, v, "None", "None")
     IN  /\ pending' = L.pending /\ writers' = L.writers /\ err' = L.err
  /\ drives' = drives + 1 /\ lastDrive' = x
  /\ UNCHANGED << kernel, design, testcase_run, net, call, tally, edgeBase, value, prev_trig, prev_write, triggered, cur, pc,
                  halves, iter, idx, steps, fired, nbaBase, wrote, combBase , cycleBase >>
  /\ RegionVarsUnchanged

NextExector ==
  \/ \E n \in {1, 2} : ExectorStart(n)
  \/ ExectorExtract
  \/ ExectorAlwaysFF
  \/ ExectorAlwaysFFDone
  \/ ExectorAlwaysComb
  \/ ExectorUpdateWires
  \/ ExectorUpdateRegs
  \/ \E d \in D.drives : ExectorDrive(d[1], d[2])

\* ================================================================= region
\* the contents of _SignalList._wires / _regs: the terminal signals by kind
WireList == {t \in Terminals : D.sigs[t].kind = "wire"}
RegList  == {t \in Terminals : D.sigs[t].kind = "reg"}
\* the entries _exec_wires visits: the wires and the aliases
WireSide == WireList \cup Ports
\* _Port._commit: the commit of entry x reaches its terminal unless x is an
\* alias whose target is a register
Port_commit(x) == ~(IsPort(x) /\ IsReg(x))

\* SimConfig.max_comb_loops has no counterpart in region.py; section 4.8 bounds
\* the stabilization loop by max_iterations
max_iterations == 4

\* _SimulationContext._record_write on the written object x; L = [pending, log, err, wrote]
RecordWrite(L, x, f, ph, dc) ==
  IF dc /\ f = "None" THEN [L EXCEPT !.err = "RuntimeError"]
  ELSE IF IsReg(x) /\ ph = "COMB" THEN [L EXCEPT !.err = "SignalInvalidAccess"]
  ELSE IF ~IsReg(x) /\ ph = "FF" THEN [L EXCEPT !.err = "SignalInvalidAccess"]
  ELSE IF f \in L.log[x] THEN L
  ELSE LET funcs == L.log[x] \cup {f}
           L2 == [L EXCEPT !.log = [L.log EXCEPT ![x] = funcs]]
       IN  IF Cardinality(funcs) > 1
           \* the message is built from item._module._name of every recorded
           \* writer; a recorded None has no _module
           THEN [L2 EXCEPT !.err = IF "None" \in funcs THEN "AttributeError"
                                   ELSE "SignalWriteConflict"]
           ELSE L2

\* a write that stages the value as given
Signal_writeUnmasked(pend, x, v) == [pend EXCEPT ![Term(x)] = v]
\* _Signal._write: stage the low width bits
Signal_write(pend, x, v) == [pend EXCEPT ![Term(x)] = Mask(v, Width(x))]

\* Wire.w / Reg.r / OutputWire.w / OutputReg.r setter: _record_write(self), then
\* _write on the terminal; InputWire has no setter
WriteRegion(L, x, v, f, ph, dc) ==
  IF PortDir(x) = "in" THEN [L EXCEPT !.err = "AttributeError"]
  ELSE LET L2 == RecordWrite(L, x, f, ph, dc)
       IN  IF L2.err # "none" THEN L2
           ELSE [L2 EXCEPT !.pending = Signal_write(L2.pending, x, v)]

\* one invocation of a process body under the region kernel
RECURSIVE RunRegion(_, _, _, _, _, _, _)
RunRegion(L, val, body, i, f, ph, dc) ==
  IF i > Len(body) \/ L.err # "none" THEN L
  ELSE LET st == body[i]
           L2 == IF Eval("region", val, st.g) # 0
                 THEN [WriteRegion(L, st.t, Eval("region", val, st.e), f, ph, dc)
                         EXCEPT !.wrote = L.wrote \cup {st.t}]
                 ELSE L
       IN  RunRegion(L2, val, body, i + 1, f, ph, dc)

\* a cycle-edge test that matches a change in either direction
EqualCycleEdgeAnyEdge(val, sc, t, edge) == val[t] # sc[t]
\* _Signal._equal_cycle_edge
EqualCycleEdge(val, sc, t, edge) ==
  IF edge = "POS" THEN val[t] # 0 /\ sc[t] = 0
  ELSE IF edge = "NEG" THEN val[t] = 0 /\ sc[t] # 0
  ELSE FALSE

\* Trigger._is_triggered; a _Port delegates both tests to its terminal
IsTriggered(val, sc, sd, trig) ==
  \E i \in 1..Len(trig) :
     /\ val[Term(trig[i].sig)] # sd[Term(trig[i].sig)]
     /\ EqualCycleEdge(val, sc, Term(trig[i].sig), trig[i].edge)

\* _Signal._commit on every signal of the set
Commit(val, pend, S) ==
  [ value   |-> [t \in Terminals |-> IF t \in S /\ pend[t] # NoneVal THEN pend[t] ELSE val[t]],
    pending |-> [t \in Terminals |-> IF t \in S THEN NoneVal ELSE pend[t]] ]

EmptyLog == [x \in Names |-> {}]

\* _exec_wires(lambda sig: sig._commit()): the commit of every wire-side entry
CommitWireSide(val, pend) ==
  Commit(val, pend, {Term(x) : x \in {y \in WireSide : Port_commit(y)}})

\* an exception leaves the step: section 7 has the Write Log cleared as part
\* of the abort; the context slot is left as the failing code left it
RegionAbort(e) ==
  /\ pc' = "idle" /\ err' = e /\ halves' = 0 /\ idx' = 1 /\ iter' = 0
  /\ write_log' = EmptyLog

\* Simulator.clock (n = 2) / half_clock (n = 1): entry of the call
RegionStart(n) ==
  /\ kernel = "region" /\ pc = "idle" /\ steps < StepLimit
  /\ pc' = "begin" /\ halves' = n /\ steps' = steps + 1 /\ drives' = 0
  /\ err' = "none" /\ fired' = {} /\ lastDrive' = "" /\ wrote' = NoWrites /\ idx' = 1 /\ iter' = 0
  /\ call' = CallOf(n, Read(kernel, value, "clk"), 0)
  /\ UNCHANGED << kernel, design, testcase_run, net, tally, edgeBase, value, pending, snap_cycle, snap_delta, snap_eps,
                  write_log, cur, phase, delta_cycle, nbaBase, combBase , cycleBase >>
  /\ ExectorVarsUnchanged

\* section 4.8 steps 1 and 2: snapshot-cycle on every signal, then the clock
\* toggle (clock.w = 0 if clock.w else 1, a staged write by test-side code)
RegionHalfClock ==
  /\ kernel = "region" /\ pc = "begin"
  /\ snap_cycle' = value /\ fired' = {} /\ wrote' = NoWrites /\ cycleBase' = value
  /\ tally' = TallyAt(tally, "region", value, pending)
  /\ LET L == WriteRegion([pending |-> pending, log |-> write_log, err |-> "none", wrote |-> {}],
                          "clk", ToggleValue("region", value), cur, phase, delta_cycle)
     IN  /\ pending' = L.pending
         /\ IF L.err # "none" THEN RegionAbort(L.err) /\ UNCHANGED call
            ELSE /\ write_log' = L.log /\ pc' = "delta" /\ iter' = 0 /\ idx' = 1
                 /\ call' = [call EXCEPT !.toggles = @ + 1]
                 /\ UNCHANGED << err, halves >>
  /\ UNCHANGED << kernel, design, testcase_run, net, value, snap_delta, snap_eps, cur, phase, delta_cycle,
                  steps, drives, nbaBase, lastDrive, combBase, edgeBase >>
  /\ ExectorVarsUnchanged

\* section 4.8 step 3a: snapshot-delta on every signal
RegionSnapshotDelta ==
  /\ kernel = "region" /\ pc = "delta"
  /\ snap_delta' = value
  /\ combBase' = [value |-> value, pending |-> pending]
  /\ pc' = "eps"
  /\ UNCHANGED << kernel, design, testcase_run, net, call, tally, edgeBase, value, pending, snap_cycle, snap_eps, write_log, cur,
                  phase, delta_cycle, halves, iter, idx, err, steps, drives, fired, nbaBase,
                  wrote, lastDrive , cycleBase >>
  /\ ExectorVarsUnchanged

\* _ActiveRegion._evaluate_always_comb, head of the while True: epsilon
\* snapshot of the wires, _enter_delta_cycle
RegionSnapshotEpsilon ==
  /\ kernel = "region" /\ pc = "eps"
  /\ snap_eps' = [t \in Terminals |-> IF t \in WireList THEN value[t] ELSE snap_eps[t]]
  /\ delta_cycle' = TRUE
  /\ pc' = "comb" /\ idx' = 1
  /\ UNCHANGED << kernel, design, testcase_run, net, call, tally, edgeBase, value, pending, snap_cycle, snap_delta, write_log, cur,
                  phase, halves, iter, err, steps, drives, fired, nbaBase, wrote, lastDrive, combBase , cycleBase >>
  /\ ExectorVarsUnchanged

\* _FunctionList._exec_always_comb: _enter_always_comb, the function, _exit
\* (no _exit when the function raises)
RegionAlwaysComb ==
  /\ kernel = "region" /\ pc = "comb" /\ idx <= Len(RegionComb)
  /\ LET f == RegionComb[idx]
         L == RunRegion([pending |-> pending, log |-> write_log, err |-> "none", wrote |-> {}],
                        value, ProcNamed(f).body, 1, f, "COMB", delta_cycle)
     IN  /\ pending' = L.pending /\ wrote' = Wrote(wrote, L.wrote, f)
         /\ IF L.err # "none"
            THEN /\ RegionAbort(L.err) /\ cur' = f /\ phase' = "COMB"
            ELSE /\ write_log' = L.log /\ cur' = "None" /\ phase' = "None"
                 /\ idx' = idx + 1 /\ UNCHANGED << pc, err, halves, iter >>
  /\ UNCHANGED << kernel, design, testcase_run, net, call, tally, edgeBase, value, snap_cycle, snap_delta, snap_eps, delta_cycle,
                  steps, drives, fired, nbaBase, lastDrive, combBase , cycleBase >>
  /\ ExectorVarsUnchanged

\* _ActiveRegion._evaluate_always_comb, tail of the while True:
\* _exit_delta_cycle, commit of the wires, _is_epsilon_changed; on leaving the
\* loop _evaluate_always_ff starts with _enter_delta_cycle
RegionCommitWires ==
  /\ kernel = "region" /\ pc = "comb" /\ idx > Len(RegionComb)
  /\ LET c == CommitWireSide(value, pending)
         is_changed == \E t \in WireList : c.value[t] # snap_eps[t]
     IN  /\ value' = c.value /\ pending' = c.pending
         /\ IF is_changed
            THEN /\ pc' = "eps" /\ delta_cycle' = FALSE /\ UNCHANGED nbaBase
            ELSE /\ pc' = "ff" /\ delta_cycle' = TRUE /\ nbaBase' = c.value
         /\ edgeBase' = EdgeBaseAt(edgeBase,
                                   ~is_changed /\ iter = 0 /\ snap_cycle["clk"] = 0 /\ c.value["clk"] # 0,
                                   c.value)
  /\ idx' = 1
  /\ UNCHANGED << kernel, design, testcase_run, net, call, tally, snap_cycle, snap_delta, snap_eps, write_log, cur, phase,
                  halves, iter, err, steps, drives, fired, wrote, lastDrive, combBase , cycleBase >>
  /\ ExectorVarsUnchanged

\* _ActiveRegion._evaluate_always_ff through _FunctionList._exec_always_ff:
\* _enter_always_ff, func() if func._trigger._is_triggered() else None, _exit
RegionAlwaysFF ==
  /\ kernel = "region" /\ pc = "ff" /\ idx <= Len(RegionFF)
  /\ LET f == RegionFF[idx]
         go == IsTriggered(value, snap_cycle, snap_delta, ProcNamed(f).trig)
         L0 == [pending |-> pending, log |-> write_log, err |-> "none", wrote |-> {}]
         L == IF go THEN RunRegion(L0, value, ProcNamed(f).body, 1, f, "FF", delta_cycle)
              ELSE L0
     IN  /\ pending' = L.pending /\ wrote' = Wrote(wrote, L.wrote, f)
         /\ fired' = IF go THEN fired \cup {f} ELSE fired
         /\ call' = IF go THEN [call EXCEPT !.ran[f] = @ + 1] ELSE call
         /\ IF L.err # "none"
            THEN /\ RegionAbort(L.err) /\ cur' = f /\ phase' = "FF"
            ELSE /\ write_log' = L.log /\ cur' = "None" /\ phase' = "None"
                 /\ idx' = idx + 1 /\ UNCHANGED << pc, err, halves, iter >>
  /\ UNCHANGED << kernel, design, testcase_run, net, tally, edgeBase, value, snap_cycle, snap_delta, snap_eps, delta_cycle,
                  steps, drives, nbaBase, lastDrive, combBase , cycleBase >>
  /\ ExectorVarsUnchanged

\* end of _evaluate_always_ff (_exit_delta_cycle), _NBARegion._execute (commit
\* of the registers), then section 4.8 steps 3d, 4 and 5
RegionNBA ==
  /\ kernel = "region" /\ pc = "ff" /\ idx > Len(RegionFF)
  /\ delta_cycle' = FALSE
  /\ LET c == Commit(value, pending, RegList)
         changed == \E t \in Terminals : c.value[t] # snap_delta[t]
     IN  /\ value' = c.value /\ pending' = c.pending
         /\ IF changed
            THEN IF iter + 1 >= max_iterations
                 THEN RegionAbort("SignalUnstableError")
                 ELSE /\ pc' = "delta" /\ iter' = iter + 1 /\ idx' = 1
                      /\ UNCHANGED << write_log, err, halves >>
            ELSE /\ write_log' = EmptyLog
                 /\ pc' = IF halves > 1 THEN "begin" ELSE "idle"
                 /\ halves' = halves - 1 /\ iter' = 0 /\ idx' = 1 /\ UNCHANGED err
  /\ UNCHANGED << kernel, design, testcase_run, net, call, tally, edgeBase, snap_cycle, snap_delta, snap_eps, cur, phase,
                  steps, drives, fired, nbaBase, wrote, lastDrive, combBase , cycleBase >>
  /\ ExectorVarsUnchanged

\* a write by test code between two calls
RegionDrive(x, v) ==
  /\ kernel = "region" /\ pc = "idle" /\ drives < MaxDrives /\ steps < StepLimit
  /\ LET L == WriteRegion([pending |-> pending, log |-> write_log, err |-> "none", wrote |-> {}],
                          x, v, cur, phase, delta_cycle)
     IN  /\ pending' = L.pending /\ write_log' = L.log /\ err' = L.err
  /\ drives' = drives + 1 /\ lastDrive' = x
  /\ UNCHANGED << kernel, design, testcase_run, net, call, tally, edgeBase, value, snap_cycle, snap_delta, snap_eps, cur, phase,
                  delta_cycle, pc, halves, iter, idx, steps, fired, nbaBase, wrote, combBase , cycleBase >>
  /\ ExectorVarsUnchanged

NextRegion ==
  \/ \E n \in {1, 2} : RegionStart(n)
  \/ RegionHalfClock
  \/ RegionSnapshotDelta
  \/ RegionSnapshotEpsilon
  \/ RegionAlwaysComb
  \/ RegionCommitWires
  \/ RegionAlwaysFF
  \/ RegionNBA
  \/ \E d \in D.drives : RegionDrive(d[1], d[2])

\* the steps a call in progress takes next: clock()/half_clock() is one
\* sequential Python call, so a step that is enabled is eventually taken
RegionRun ==
  \/ RegionHalfClock \/ RegionSnapshotDelta \/ RegionSnapshotEpsilon
  \/ RegionAlwaysComb \/ RegionCommitWires \/ RegionAlwaysFF \/ RegionNBA
ExectorRun ==
  \/ ExectorExtract \/ ExectorAlwaysFF \/ ExectorAlwaysFFDone
  \/ ExectorAlwaysComb \/ ExectorUpdateWires \/ ExectorUpdateRegs

\* ------------------------------------------------------------------- Init
InitNet(k) ==
  /\ kernel = k
  /\ value = [t \in DOMAIN net.sigs |-> net.sigs[t].init]
  /\ pending = [t \in DOMAIN net.sigs |-> NoneVal]
  /\ prev_trig = value /\ prev_write = value
  /\ snap_cycle = [t \in DOMAIN net.sigs |-> 0]
  /\ snap_delta = snap_cycle /\ snap_eps = snap_cycle
  /\ writers = [x \in DOMAIN net.sigs \cup DOMAIN net.ports |-> ""]
  /\ write_log = [x \in DOMAIN net.sigs \cup DOMAIN net.ports |-> {}]
  /\ cur = "None" /\ phase = "None" /\ delta_cycle = FALSE
  /\ triggered = << >>
  /\ pc = "idle" /\ halves = 0 /\ iter = 0 /\ idx = 1
  /\ err = "none" /\ steps = 0 /\ drives = 0
  /\ fired = {} /\ nbaBase = value
  /\ wrote = [x \in DOMAIN net.sigs \cup DOMAIN net.ports |-> {}]
  /\ lastDrive = "" /\ cycleBase = value
  /\ combBase = [value |-> value, pending |-> pending]
  /\ call = [kind |-> 0, ran |-> [f \in {net.ff[i].name : i \in 1..Len(net.ff)} |-> 0],
             clk0 |-> 0, toggles |-> 0]
  /\ tally = 0 /\ edgeBase = value
  /\ testcase_run = NoTestcaseRun

InitOf(k) ==
  /\ design \in {d \in DesignNames : k \in Designs[d].kernels}
  /\ net = Designs[design]
  /\ InitNet(k)
\* a run of one of the worked examples
InitExample(k, d) ==
  /\ design = d
  /\ net = Examples[d]
  /\ InitNet(k)

InitExector == InitOf("exector")
SpecExector == InitExector /\ [][NextExector]_vars
InitRegion == InitOf("region")
SpecRegion == InitRegion /\ [][NextRegion]_vars
\* the same kernels with a call in progress running on
SpecExectorFair == InitExector /\ [][NextExector]_vars /\ WF_vars(ExectorRun)
SpecRegionFair == InitRegion /\ [][NextRegion]_vars /\ WF_vars(RegionRun)
\* runs of the 4-bit counter of the test suite, on either kernel
InitCounter == InitExample("exector", "counter") \/ InitExample("region", "counter")
SpecCounter == InitCounter /\ [][NextExector \/ NextRegion]_vars
\* runs of the three-stage shift register, in both assignment orders
InitShift == \E k \in Both : \E d \in {"shift", "shiftrev"} : InitExample(k, d)
SpecShift == InitShift /\ [][NextExector \/ NextRegion]_vars
\* ------------------------------------------------- the signal API on its own
\* A signal used outside a simulator, as the unit tests of the signal classes
\* do (test_wire.py, test_inputwire.py): one terminal s with an output alias q
\* and an output alias qq over q and, over a wire, an input alias p, an input
\* alias pp over p and an output alias qp over p; the context only records
\* the writes.
\* the class of an output alias over a signal of the kind: OutputReg over a
\* register in signal.py (OutputWire refuses a Reg), Output in signal/signal.py
OutClass(k, kind) == IF k = "region" /\ kind = "reg" THEN "outreg" ELSE "out"
UnitDesign(k, kind, w, i) ==
  [ sigs  |-> [s |-> IF kind = "wire" THEN W(w, i, FALSE) ELSE R(w, i)],
    ports |-> IF kind = "wire"
              THEN [p |-> P("in", "s"), q |-> P("out", "s")]
              ELSE [q |-> P(OutClass(k, kind), "s")],
    comb  |-> << >>, ff |-> << >>, dir |-> << >>, drives |-> {}, kernels |-> Both ]
\* the same with aliases built over the aliases
ChainedDesign(k, kind, w, i) ==
  [UnitDesign(k, kind, w, i) EXCEPT !.ports =
     IF kind = "wire"
     THEN [p |-> P("in", "s"), q |-> P("out", "s"), pp |-> P("in", "p"),
           qq |-> P("out", "q"), qp |-> P("out", "p")]
     ELSE [q |-> P(OutClass(k, kind), "s"), qq |-> P(OutClass(k, kind), "q")]]

\* the init arguments tried at width w: the least, the greatest that fits and
\* one that does not fit (neither constructor validates init against width)
InitValues(w) == {0, Pow2(w) - 1, Pow2(w) + 1}
\* the written values: negative, in range, and wider than the signal
WriteValues == -1 .. Pow2(MaxWidth)
\* the indexes used in a bit or slice key; -1 and MaxWidth lie outside every
\* signal
Indexes == -1 .. MaxWidth

\* the low and the high bound of the key [a:b], given in either order
Lo(a, b) == IF a < b THEN a ELSE b
Hi(a, b) == IF a < b THEN b ELSE a
\* bits lo..hi of v, moved down to bit 0: (v >> lo) & (2^(hi-lo+1) - 1)
BitsOf(v, lo, hi) == (v \div Pow2(lo)) % Pow2(hi - lo + 1)
\* a merge that does not cut n to the width of the range
SetBitsOfUncut(v, lo, hi, n) == v - BitsOf(v, lo, hi) * Pow2(lo) + n * Pow2(lo)
\* v with bits lo..hi replaced by the low bits of n:
\*   ((n & mask) << lo) | (v & ~(mask << lo))
SetBitsOf(v, lo, hi, n) ==
  v - BitsOf(v, lo, hi) * Pow2(lo) + (n % Pow2(hi - lo + 1)) * Pow2(lo)

\* the outcome of a read: the value returned, or the exception raised
Got(v) == [err |-> "none", val |-> v]
Failed(e) == [err |-> e, val |-> 0]

\* a range check that has no upper limit
InvalidRangeNoUpper(x, a, b) == Lo(a, b) < 0
\* region: the range check of _Signal._read_bits / _write_bits
InvalidRange(x, a, b) == Hi(a, b) >= Width(x) \/ Lo(a, b) < 0

\* a slice read that returns the staged bits once a value is pending
Signal_read_bitsStaged(k, val, x, a, b) ==
  IF Lo(a, b) < 0 \/ Hi(a, b) >= Width(x) THEN Failed("AttributeError")
  ELSE Got(BitsOf(IF pending[Term(x)] # NoneVal THEN pending[Term(x)] ELSE val[Term(x)],
                  Lo(a, b), Hi(a, b)))
\* x[a:b] read: region _Signal._read_bits on the terminal (AttributeError on an
\* invalid range); exector _Signal._get_bit, which checks no range, fails in
\* the shift of __make_mask on a negative index (ValueError) and masks its
\* result with _to_integer
Signal_read_bits(k, val, x, a, b) ==
  IF k = "region"
  THEN (IF InvalidRange(x, a, b) THEN Failed("AttributeError")
        ELSE Got(BitsOf(val[Term(x)], Lo(a, b), Hi(a, b))))
  ELSE IF Lo(a, b) < 0 THEN Failed("ValueError")
  ELSE IF IsSigned(x) THEN Got(ToSigned(BitsOf(val[Term(x)], Lo(a, b), Hi(a, b)), Width(x)))
  ELSE Got(Mask(BitsOf(val[Term(x)], Lo(a, b), Hi(a, b)), Width(x)))

\* region _Signal._write_bits: merge into the staged value, else the committed
Signal_write_bits(val, pend, x, a, b, v) ==
  LET cur_value == IF pend[Term(x)] # NoneVal THEN pend[Term(x)] ELSE val[Term(x)]
  IN  Signal_write(pend, x, SetBitsOf(cur_value, Lo(a, b), Hi(a, b), v))
\* exector _Signal._set_bit: merge into the committed value; the staged
\* value is dropped when the result equals the committed value
Signal_set_bit(val, pend, x, a, b, v) ==
  LET bits_value == SetBitsOf(val[Term(x)], Lo(a, b), Hi(a, b), v)
  IN  [pend EXCEPT ![Term(x)] = IF bits_value # val[Term(x)] THEN bits_value ELSE NoneVal]

\* everything but the committed and staged values and the outcome
UnitFrame ==
  UNCHANGED << kernel, design, testcase_run, net, prev_trig, prev_write, snap_cycle, snap_delta,
               snap_eps, writers, write_log, cur, phase, delta_cycle, triggered, pc,
               halves, iter, idx, steps, drives, fired, wrote, lastDrive, cycleBase,
               nbaBase, combBase, call, tally, edgeBase >>

\* x.w = v / x.r = v: Input (exector) and InputWire (region) have no setter
UnitWrite(x, v) ==
  /\ IF PortDir(x) = "in"
     THEN err' = "AttributeError" /\ UNCHANGED pending
     ELSE /\ err' = "none"
          /\ pending' = IF kernel = "region" THEN Signal_write(pending, x, v)
                        ELSE Signal_set(value, pending, x, v)
  /\ UNCHANGED value
  /\ UnitFrame

\* x[a:b] = v: the input aliases define no __setitem__ (TypeError)
UnitWriteBits(x, a, b, v) ==
  /\ IF PortDir(x) = "in"
     THEN err' = "TypeError" /\ UNCHANGED pending
     ELSE IF kernel = "region" /\ InvalidRange(x, a, b)
     THEN err' = "AttributeError" /\ UNCHANGED pending
     ELSE IF kernel = "exector" /\ Lo(a, b) < 0
     THEN err' = "ValueError" /\ UNCHANGED pending
     ELSE /\ err' = "none"
          /\ pending' = IF kernel = "region" THEN Signal_write_bits(value, pending, x, a, b, v)
                        ELSE Signal_set_bit(value, pending, x, a, b, v)
  /\ UNCHANGED value
  /\ UnitFrame

\* x._commit() (region; _Port._commit returns at once over a Reg) and
\* x._update() (exector; Input._update returns False without committing)
Signal_commit(k, val, pend, x) ==
  LET t == Term(x)
      skip == IF k = "region" THEN IsPort(x) /\ IsReg(x) ELSE PortDir(x) = "in"
  IN  IF skip \/ pend[t] = NoneVal
      THEN [value |-> val, pending |-> pend]
      ELSE [value |-> [val EXCEPT ![t] = pend[t]], pending |-> [pend EXCEPT ![t] = NoneVal]]
UnitCommit(x) ==
  /\ value' = Signal_commit(kernel, value, pending, x).value
  /\ pending' = Signal_commit(kernel, value, pending, x).pending
  /\ err' = "none"
  /\ UnitFrame

UnitWriteStep == \E x \in Names : \E v \in WriteValues : UnitWrite(x, v)
UnitWriteBitsStep ==
  \E x \in Names : \E a \in Indexes : \E b \in Indexes : \E v \in WriteValues :
     UnitWriteBits(x, a, b, v)
UnitCommitStep == \E x \in Names : UnitCommit(x)
NextUnit == UnitWriteStep \/ UnitWriteBitsStep \/ UnitCommitStep

InitUnitOf(k) ==
  /\ design = "unit"
  /\ \E kind \in {"wire", "reg"} : \E w \in 1..MaxWidth :
        \E i \in InitValues(w) : net = UnitDesign(k, kind, w, i) /\ InitNet(k)
InitUnit == \E k \in Both : InitUnitOf(k)
SpecSignal == InitUnit /\ [][NextUnit]_vars
\* the signal of src/hdlproto/signal.py alone
SpecSignalRegion == InitUnitOf("region") /\ [][NextUnit]_vars

\* the signal API through chained aliases
InitChainedOf(k) ==
  /\ design = "unit"
  /\ \E kind \in {"wire", "reg"} : \E w \in 1..MaxWidth :
        \E i \in InitValues(w) : net = ChainedDesign(k, kind, w, i) /\ InitNet(k)
InitChained == \E k \in Both : InitChainedOf(k)
SpecSignalChained == InitChained /\ [][NextUnit]_vars

\* --------------------------------------------- snapshots of a signal on its own
\* the values written in the runs of the snapshot API: low, high and, on a
\* multi-bit signal, a second nonzero value
SnapshotValues == 0 .. MaxWidth
\* the snapshot slots of each implementation
SlotsOf(k) == IF k = "region" THEN {"cycle", "delta", "epsilon"} ELSE {"trigger", "write"}
\* the slots as one record: _snapshot_cycle_val, _snapshot_delta_val,
\* _snapshot_epsilon_val, _prev_value_for_trigger, _prev_value_for_write
SlotState ==
  [cycle |-> snap_cycle, delta |-> snap_delta, epsilon |-> snap_eps,
   trigger |-> prev_trig, write |-> prev_write]

\* region: a _Port forwards _snapshot_delta, _snapshot_cycle, _is_delta_changed
\* and _equal_cycle_edge to its target; _snapshot_epsilon, _is_cycle_changed
\* and _is_epsilon_changed are inherited from _Signal and act on the fields
\* of the alias itself, which stay at the 0 of _Signal.__init__
OnAliasItself(k, x, slot, query) ==
  /\ k = "region" /\ IsPort(x)
  /\ \/ slot = "epsilon"
     \/ slot = "cycle" /\ query

\* exector: Reg has no _store_stabled_value_for_trigger
NoSuchSlot(k, x, slot) == k = "exector" /\ slot = "trigger" /\ ~IsPort(x) /\ IsReg(x)

\* a snapshot that copies the committed value into every slot
Signal_snapshotAll(k, val, S, x, slot) ==
  [n \in DOMAIN S |-> IF n \in SlotsOf(k) THEN [S[n] EXCEPT ![Term(x)] = val[Term(x)]] ELSE S[n]]
\* _Signal._snapshot_cycle / _snapshot_delta / _snapshot_epsilon and
\* _store_stabled_value_for_trigger / _store_stabled_value_for_write on x
Signal_snapshot(k, val, S, x, slot) ==
  IF OnAliasItself(k, x, slot, FALSE) \/ NoSuchSlot(k, x, slot) THEN S
  ELSE [S EXCEPT ![slot] = [S[slot] EXCEPT ![Term(x)] = val[Term(x)]]]

\* _Signal._is_cycle_changed / _is_delta_changed / _is_epsilon_changed and
\* _Signal._is_write on x
IsChanged(k, val, S, x, slot) ==
  IF OnAliasItself(k, x, slot, TRUE) THEN FALSE
  ELSE val[Term(x)] # S[slot][Term(x)]

\* an edge test that looks at the lowest bit only
SignalEdgeMatchesLowBit(k, val, S, t, edge) ==
  LET now  == val[t] % 2
      then == (IF k = "region" THEN S.cycle ELSE S.trigger)[t] % 2
  IN  (edge = "POS" /\ then = 0 /\ now = 1) \/ (edge = "NEG" /\ then = 1 /\ now = 0)
\* the edge test of the _Signal object of terminal t itself:
\* _Signal._equal_cycle_edge (region) and, by its truth value,
\* _Signal._is_edge_match_expected of the _Signal a Wire or a Reg holds
\* (exector)
SignalEdgeMatches(k, val, S, t, edge) ==
  IF k = "region" THEN EqualCycleEdge(val, S.cycle, t, edge)
  ELSE IsEdgeMatchExpected(val, S.trigger, t, edge)

\* exector: Wire._is_edge_match_expected and Output._is_edge_match_expected
\* call the method of their signal and have no return statement, so the call
\* yields None
EdgeMatchesNone(k, x) ==
  k = "exector" /\ (IF IsPort(x) THEN PortDir(x) # "in" ELSE ~IsReg(x))
Truth(b) == IF b THEN "True" ELSE "False"
\* the outcome of x._equal_cycle_edge(edge) (region: _Signal, and _Port
\* forwarding to its target) and of x._is_edge_match_expected(edge) (exector:
\* Input returns its signal's answer, Wire and Output yield None, Reg has no
\* such method); an answer is given by its truth value
EdgeMatches(k, val, S, x, edge) ==
  IF k = "region" THEN Truth(EqualCycleEdge(val, S.cycle, Term(x), edge))
  ELSE IF EdgeMatchesNone(k, x) THEN "None"
  ELSE IF ~IsPort(x) THEN "AttributeError"
  ELSE Truth(IsEdgeMatchExpected(val, S.trigger, Term(x), edge))

\* everything but the slots and the outcome
SnapshotFrame ==
  UNCHANGED << kernel, design, testcase_run, net, value, pending, writers, write_log, cur, phase,
               delta_cycle, triggered, pc, halves, iter, idx, steps, drives, fired,
               wrote, lastDrive, cycleBase, nbaBase, combBase, call, tally, edgeBase >>

UnitSnapshot(x, slot) ==
  /\ slot \in SlotsOf(kernel)
  /\ LET S == Signal_snapshot(kernel, value, SlotState, x, slot)
     IN  /\ snap_cycle' = S.cycle /\ snap_delta' = S.delta /\ snap_eps' = S.epsilon
         /\ prev_trig' = S.trigger /\ prev_write' = S.write
  /\ err' = IF NoSuchSlot(kernel, x, slot) THEN "AttributeError" ELSE "none"
  /\ SnapshotFrame

SnapshotWriteStep == \E x \in Names : \E v \in SnapshotValues : UnitWrite(x, v)
UnitSnapshotStep ==
  \E x \in Names : \E slot \in {"cycle", "delta", "epsilon", "trigger", "write"} :
     UnitSnapshot(x, slot)
NextSnapshot == SnapshotWriteStep \/ UnitCommitStep \/ UnitSnapshotStep
SpecSnapshot == InitChained /\ [][NextSnapshot]_vars
\* the signal of src/hdlproto/signal.py alone
SpecSnapshotRegion == InitChainedOf("region") /\ [][NextSnapshot]_vars

\* ------------------------------------------------ the construction of aliases
\* InputWire(t), OutputWire(t), OutputReg(t) of src/hdlproto/signal.py and
\* Input(t), Output(t) of src/hdlproto/signal/signal.py, built one after the
\* other over a terminal or over an alias built before; an alias array builds
\* one such alias per element of its target array.
AliasPool == {"a", "b"}
AliasClasses(k) == IF k = "region" THEN {"in", "out", "outreg"} ELSE {"in", "out"}
ConstructDesign(k, kind, w, i) == [UnitDesign(k, kind, w, i) EXCEPT !.ports = << >>]
Extend(f, a, p) == [x \in DOMAIN f \cup {a} |-> IF x = a THEN p ELSE f[x]]

\* the kind check of a constructor: InputWire and OutputWire raise TypeError
\* over a register, OutputReg over a wire; Input and Output check nothing
Port_init(k, cls, target) ==
  IF k = "region" /\ (IF cls = "outreg" THEN ~IsReg(target) ELSE IsReg(target))
  THEN "TypeError"
  ELSE "none"

\* the alias object cls(over) after _Port.__init__ / Input.__init__ /
\* Output.__init__: it keeps the terminal of its argument
\* (self._target = target._get_signal(), self._signal = wire._signal), not
\* the argument; over records the argument
Alias(cls, over) == [dir |-> cls, target |-> Term(over), over |-> over]

\* a = cls(target)
Construct(a, cls, target) ==
  /\ err' = Port_init(kernel, cls, target)
  /\ net' = IF Port_init(kernel, cls, target) = "none"
            THEN [net EXCEPT !.ports = Extend(net.ports, a, Alias(cls, target))]
            ELSE net
  /\ UNCHANGED << kernel, design, testcase_run, value, pending, prev_trig, prev_write, snap_cycle,
                  snap_delta, snap_eps, writers, write_log, cur, phase, delta_cycle,
                  triggered, pc, halves, iter, idx, steps, drives, fired, wrote,
                  lastDrive, cycleBase, nbaBase, combBase, call, tally, edgeBase >>

ConstructStep ==
  \E a \in AliasPool \ Ports : \E cls \in AliasClasses(kernel) : \E target \in Names :
     Construct(a, cls, target)
NextConstruct == ConstructStep

InitConstructOf(k) ==
  /\ design = "construct"
  /\ \E kind \in {"wire", "reg"} : \E w \in 1..MaxWidth :
        \E i \in InitValues(w) : net = ConstructDesign(k, kind, w, i) /\ InitNet(k)
InitConstruct == \E k \in Both : InitConstructOf(k)
SpecConstruct == InitConstruct /\ [][NextConstruct]_vars
\* the constructors of src/hdlproto/signal.py alone
SpecConstructRegion == InitConstructOf("region") /\ [][NextConstruct]_vars

\* aliases built at run time over two signals of different kind, width and
\* value, a wire s and a register r, and used through the signal API
\* (test_inputwire.py: setup_nested_wire, test_nested_edge_detection)
AliasChainDesign ==
  [ sigs  |-> [s |-> W(MaxWidth, 0, FALSE), r |-> R(1, 1)],
    ports |-> << >>,
    comb  |-> << >>, ff |-> << >>, dir |-> << >>, drives |-> {}, kernels |-> {"region"} ]
\* the aliases are built in the order a, b, c, each of any class over any
\* signal or alias that exists
AliasOrder == <<"a", "b", "c">>
ChainConstructStep ==
  \E i \in DOMAIN AliasOrder : \E cls \in AliasClasses(kernel) : \E target \in Names :
     /\ AliasOrder[i] \notin Ports
     /\ \A j \in 1..(i - 1) : AliasOrder[j] \in Ports
     /\ Construct(AliasOrder[i], cls, target)
CycleSnapshotStep == \E x \in Names : UnitSnapshot(x, "cycle")
NextAliasChain == ChainConstructStep \/ SnapshotWriteStep \/ UnitCommitStep \/ CycleSnapshotStep
InitAliasChain == design = "chain" /\ net = AliasChainDesign /\ InitNet("region")
SpecAliasChain == InitAliasChain /\ [][NextAliasChain]_vars

\* ------------------------------------------------------- running test cases
\* A testbench declares test cases, methods marked by @testcase, in some
\* order; the environment builder collects them and Simulator.testcase(name)
\* runs them.  A test case of the model appends its name to the log of the
\* testbench, as the test cases of TbMultipleTestcases do.
TestcaseNames == <<"alpha", "beta", "delta", "gamma">>
\* the declaration orders: the sequences of distinct test case names
Declarations ==
  { d \in UNION { [1..n -> {TestcaseNames[i] : i \in DOMAIN TestcaseNames}] :
                    n \in 0 .. Len(TestcaseNames) } :
      \A i \in DOMAIN d : \A j \in DOMAIN d : i # j => d[i] # d[j] }
TestcaseDesign(decl) ==
  [ sigs  |-> [clk |-> W(1, 0, TRUE)], ports |-> << >>,
    comb  |-> << >>, ff |-> << >>, dir |-> << >>, drives |-> {}, kernels |-> Both,
    cases |-> decl ]
InSeq(x, q) == \E i \in DOMAIN q : q[i] = x
IsDeclared(n) == InSeq(n, net.cases)
\* dir(testbench): the attribute names in alphabetical order
Dir(decl) == SelectSeq(TestcaseNames, LAMBDA n : InSeq(n, decl))
\* _setup_testcase_manager: _testcase_functions in the order of dir()
SetupTestcaseManager(decl) == Dir(decl)
\* _run_testcase(name): the first entry of that name alone; all entries, in
\* the order of the list, when name is None; nothing for an unknown name
RunTestcase(funcs, name) ==
  IF name = "None" THEN funcs
  ELSE IF InSeq(name, funcs) THEN << name >>
  ELSE << >>

\* sim.testcase(name)
Testcase(name) ==
  /\ testcase_run' = [name |-> name, ran |-> RunTestcase(SetupTestcaseManager(net.cases), name)]
  /\ err' = "none"
  /\ UNCHANGED << kernel, design, net, value, pending, prev_trig, prev_write, snap_cycle,
                  snap_delta, snap_eps, writers, write_log, cur, phase, delta_cycle,
                  triggered, pc, halves, iter, idx, steps, drives, fired, wrote,
                  lastDrive, cycleBase, nbaBase, combBase, call, tally, edgeBase >>
TestcaseStep ==
  \E name \in {TestcaseNames[i] : i \in DOMAIN TestcaseNames} \cup {"None"} : Testcase(name)
NextTestcase == TestcaseStep

InitTestcase ==
  /\ design = "testcases"
  /\ \E decl \in Declarations : net = TestcaseDesign(decl)
  /\ InitNet("exector")
SpecTestcase == InitTestcase /\ [][NextTestcase]_vars

\* ---------------------------------------------------------- signed signals
\* Wire(sign, width, init) and Reg(sign, width, init) of
\* src/hdlproto/signal/signal.py: the construction of one signal, then whole
\* writes and commits of it.
MaxSignedWidth == 4
SignedWriteValues == -Pow2(MaxSignedWidth) .. Pow2(MaxSignedWidth) + 1
NoSignals ==
  [ sigs  |-> << >>, ports |-> << >>,
    comb  |-> << >>, ff |-> << >>, dir |-> << >>, drives |-> {}, kernels |-> {"exector"} ]
\* a constructor that accepts every width
Signal_initAny(sign, w) == "none"
\* _Signal.__init__: a signed signal of width 1 is refused
Signal_init(sign, w) == IF sign /\ w = 1 THEN "ValueError" ELSE "none"

\* s = Wire(sign, w, i) / s = Reg(sign, w, i)
SignalConstruct(s, kind, sign, w, i) ==
  /\ err' = Signal_init(sign, w)
  /\ IF Signal_init(sign, w) = "none"
     THEN /\ net' = [net EXCEPT !.sigs =
                       Extend(net.sigs, s, [(IF kind = "wire" THEN W(w, i, FALSE) ELSE R(w, i))
                                              EXCEPT !.sign = sign])]
          /\ value' = Extend(value, s, i)
          /\ pending' = Extend(pending, s, NoneVal)
          /\ prev_trig' = Extend(prev_trig, s, i)
          /\ prev_write' = Extend(prev_write, s, i)
     ELSE UNCHANGED << net, value, pending, prev_trig, prev_write >>
  /\ UNCHANGED << kernel, design, testcase_run, snap_cycle, snap_delta, snap_eps, writers,
                  write_log, cur, phase, delta_cycle, triggered, pc, halves, iter, idx,
                  steps, drives, fired, wrote, lastDrive, cycleBase, nbaBase, combBase,
                  call, tally, edgeBase >>

SignalConstructStep ==
  \E s \in {"s"} \ Terminals : \E kind \in {"wire", "reg"} : \E sign \in BOOLEAN :
     \E w \in 1 .. MaxSignedWidth : \E i \in InitValues(w) :
        SignalConstruct(s, kind, sign, w, i)
SignedWriteStep == \E x \in Names : \E v \in SignedWriteValues : UnitWrite(x, v)
NextSigned == SignalConstructStep \/ SignedWriteStep \/ UnitCommitStep

InitSigned == design = "signed" /\ net = NoSignals /\ InitNet("exector")
SpecSigned == InitSigned /\ [][NextSigned]_vars

\* ------------------------------------------------------------------ arrays
\* WireArray / RegArray and OutputWireArray / OutputRegArray of
\* src/hdlproto/signal_array.py: the array arr holds two signals, or one
\* output alias for each of the two signals of the array it is built over.
\* An entry of _items is a signal or, once replaced by an element
\* assignment, the assigned integer.
ArrayValues == {0, Pow2(MaxWidth) - 1}
ArrayIndexes == 0 .. MaxWidth - 1
Item(n) == [int |-> FALSE, name |-> n, val |-> 0]
IntItem(v) == [int |-> TRUE, name |-> "", val |-> v]
ArrayDesign(kind, ported) ==
  [ sigs   |-> [s0 |-> IF kind = "wire" THEN W(MaxWidth, 1, FALSE) ELSE R(MaxWidth, 1),
                s1 |-> IF kind = "wire" THEN W(MaxWidth, 2, FALSE) ELSE R(MaxWidth, 2)],
    ports  |-> [q0 |-> P(OutClass("region", kind), "s0"),
                q1 |-> P(OutClass("region", kind), "s1")],
    comb   |-> << >>, ff |-> << >>, dir |-> << >>, drives |-> {}, kernels |-> {"region"},
    arrays |-> [arr |-> IF ported THEN << Item("q0"), Item("q1") >>
                        ELSE << Item("s0"), Item("s1") >>] ]
Arrays == DOMAIN net.arrays
\* the keys of an item access: an index, or the tuple of an index and a range
IndexKey(i) == [tuple |-> FALSE, i |-> i, a |-> 0, b |-> 0]
TupleKey(i, a, b) == [tuple |-> TRUE, i |-> i, a |-> a, b |-> b]
ArrayKeys ==
  {IndexKey(i) : i \in 1 .. 2}
    \cup {TupleKey(i, a, b) : i \in 1 .. 2, a \in ArrayIndexes, b \in ArrayIndexes}

\* _SignalArray.__getitem__ with a tuple key: self._items[index][bit_slice]
SignalArray_getitem(val, arr, i, a, b) ==
  LET it == net.arrays[arr][i]
  IN  IF it.int THEN Failed("TypeError")
      ELSE Signal_read_bits(kernel, val, it.name, a, b)

ArrayFrame ==
  UNCHANGED << kernel, design, testcase_run, prev_trig, prev_write, snap_cycle, snap_delta,
               snap_eps, writers, write_log, cur, phase, delta_cycle, triggered, pc,
               halves, iter, idx, steps, drives, fired, wrote, lastDrive, cycleBase,
               nbaBase, combBase, call, tally, edgeBase >>

\* _SignalArray.__setitem__: self._items[key] = value; a list takes no tuple
\* as an index (TypeError) and replaces the entry at an integer index
SignalArray_setitem(arr, key, v) ==
  /\ IF key.tuple
     THEN err' = "TypeError" /\ UNCHANGED net
     ELSE err' = "none" /\ net' = [net EXCEPT !.arrays[arr][key.i] = IntItem(v)]
  /\ UNCHANGED << value, pending >>
  /\ ArrayFrame

\* arr[i][a:b] = v: the slice write of the entry at i
ArrayElementWriteBits(arr, i, a, b, v) ==
  LET it == net.arrays[arr][i]
  IN  IF it.int
      THEN err' = "TypeError" /\ UNCHANGED << net, value, pending >> /\ ArrayFrame
      ELSE UnitWriteBits(it.name, a, b, v)

ArraySetItemStep ==
  \E arr \in Arrays : \E key \in ArrayKeys : \E v \in ArrayValues :
     SignalArray_setitem(arr, key, v)
ArrayElementWriteStep ==
  \E arr \in Arrays : \E i \in 1 .. 2 : \E a \in ArrayIndexes : \E b \in ArrayIndexes :
     \E v \in ArrayValues : ArrayElementWriteBits(arr, i, a, b, v)
NextArray == ArraySetItemStep \/ ArrayElementWriteStep \/ UnitCommitStep

InitArray ==
  /\ design = "arrays"
  /\ \E kind \in {"wire", "reg"} : \E ported \in BOOLEAN : net = ArrayDesign(kind, ported)
  /\ InitNet("region")
SpecArray == InitArray /\ [][NextArray]_vars

\* ------------------------------------------------ the order of the processes
\* Designs in which every signal has one driver, elaborated with their
\* combinational and their sequential processes in every order.
OrderDesigns ==
  [ \* two combinational and two sequential processes in a chain
    chain |->
      [ sigs  |-> [clk |-> W(1, 0, TRUE), x |-> W(2, 0, TRUE), m |-> W(2, 0, FALSE),
                   y |-> W(2, 0, FALSE), r0 |-> R(2, 0), r1 |-> R(2, 0)],
        ports |-> [ck |-> P("in", "clk")],
        comb  |-> << Comb("stage_a", <<Asg("m", Add("x", 1))>>),
                     Comb("stage_b", <<Asg("y", Sig("m"))>>) >>,
        ff    |-> << FF("ff_a", <<POS("ck")>>, <<Asg("r0", Sig("y"))>>),
                     FF("ff_b", <<POS("ck")>>, <<Asg("r1", Sig("r0"))>>) >>,
        dir   |-> <<"ff_a", "ff_b", "stage_a", "stage_b">>,
        drives |-> {<<"x", 1>>, <<"x", 2>>}, kernels |-> Both ],
    nba  |-> Designs.nba,
    pass |-> Designs.pass,
    conflict |-> Designs.conflict ]
\* the sequences with the elements of q in some order
Perms(q) == { [i \in 1..Len(q) |-> q[f[i]]] : f \in Permutations(1..Len(q)) }
NamesOf(procs) == [i \in 1..Len(procs) |-> procs[i].name]
ProcsOf(d) == {d.comb[i] : i \in 1..Len(d.comb)} \cup {d.ff[i] : i \in 1..Len(d.ff)}
\* the write of process q of d to object x passes the test of the kind:
\* a register from a sequential, anything else from a combinational process
KindAccepted(d, q, x) ==
  (d.sigs[TermOf(d, x)].kind = "reg") = (\E i \in 1..Len(d.ff) : d.ff[i] = q)
\* the entry of the write log for object x once every process of d has run:
\* the log is kept by the object written, an alias included, and holds the
\* accepted writes
DriversOf(d, x) ==
  { p.name : p \in { q \in ProcsOf(d) :
                        \E j \in 1..Len(q.body) : q.body[j].t = x /\ KindAccepted(d, q, x) } }
\* the arbiter finds no second driver of an object
SingleDriver(d) ==
  \A x \in DOMAIN d.sigs \cup DOMAIN d.ports : Cardinality(DriversOf(d, x)) <= 1
\* every wire and register of d is assigned by at most one process, the
\* assignments made through its aliases included
OneProcessPerSignal(d) ==
  \A t \in DOMAIN d.sigs :
     Cardinality({ p.name : p \in { q \in ProcsOf(d) :
                     \E j \in 1..Len(q.body) : TermOf(d, q.body[j].t) = t } }) <= 1
\* d with its processes appended to the lists in the orders pc and pf
Reordered(d, cs, fs) ==
  [d EXCEPT !.comb = cs, !.ff = fs, !.dir = NamesOf(cs) \o NamesOf(fs)]

InitOrder ==
  /\ design \in {n \in DOMAIN OrderDesigns :
                   SingleDriver(OrderDesigns[n]) /\ OneProcessPerSignal(OrderDesigns[n])}
  /\ \E cs \in Perms(OrderDesigns[design].comb) : \E fs \in Perms(OrderDesigns[design].ff) :
        net = Reordered(OrderDesigns[design], cs, fs)
  /\ \E k \in Both : InitNet(k)
SpecOrder == InitOrder /\ [][NextExector \/ NextRegion]_vars

\* ------------------------------------------- a register behind an output alias
\* A module with register r behind output alias q (Output in signal/signal.py,
\* OutputReg in signal.py), register p without alias and wires v and w.
RegPortDesign(k) ==
  [ sigs  |-> [clk |-> W(1, 0, TRUE), x |-> W(2, 0, TRUE), r |-> R(2, 0), p |-> R(2, 0),
               v |-> W(2, 0, FALSE), w |-> W(2, 0, FALSE)],
    ports |-> [ck |-> P("in", "clk"), xi |-> P("in", "x"),
               q |-> P(IF k = "region" THEN "outreg" ELSE "out", "r")],
    comb  |-> << Comb("follow", <<Asg("w", Sig("r")), Asg("v", Sig("xi"))>>) >>,
    ff    |-> << FF("seq", <<POS("ck")>>, <<Asg("r", Const(2)), Asg("p", Const(1))>>) >>,
    dir   |-> <<"follow", "seq">>,
    drives |-> {<<"x", 1>>, <<"r", 3>>}, kernels |-> Both ]
InitRegPort == \E k \in Both : design = "regport" /\ net = RegPortDesign(k) /\ InitNet(k)
SpecRegPort == InitRegPort /\ [][NextExector \/ NextRegion]_vars

\* ------------------------------------------------ triggers beyond the clock
\* A sequential process with a repeated (edge, signal) pair and a trigger on
\* wire w, which follows register r1 and so rises in the second iteration of
\* the stabilization loop of the step in which the clock rises.
RetriggerDesign ==
  [ sigs  |-> [clk |-> W(1, 0, TRUE), x |-> W(1, 0, TRUE), r1 |-> R(1, 0),
               w |-> W(1, 0, FALSE), n |-> R(2, 0)],
    ports |-> [ck |-> P("in", "clk"), wi |-> P("in", "w")],
    comb  |-> << Comb("follow", <<Asg("w", Sig("r1"))>>) >>,
    ff    |-> << FF("count", <<POS("ck"), POS("ck"), POS("wi")>>, <<Asg("n", Add("n", 1))>>),
                 FF("first", <<POS("ck")>>, <<Asg("r1", Const(1))>>) >>,
    dir   |-> <<"count", "first", "follow">>,
    drives |-> {<<"x", 1>>}, kernels |-> Both ]
InitRetrigger == \E k \in Both : design = "retrigger" /\ net = RetriggerDesign /\ InitNet(k)
SpecRetrigger == InitRetrigger /\ [][NextExector \/ NextRegion]_vars

\* both kernels of the repository under one specification
Init == InitExector \/ InitRegion
Next == NextExector \/ NextRegion
Spec == Init /\ [][Next]_vars

\* ================================================================ properties
\* some process that ran in this half step wrote an object resolving to t
WrittenByFired(t) == \E x \in Names : Term(x) = t /\ wrote[x] \cap fired # {}

\* the value some statement of a fired process assigns to t when every read
\* is served from the register values the sweep began with
AssignedFrom(base, t) ==
  { Mask(Eval(kernel, base, ProcNamed(f).body[i].e), Width(t)) :
      <<f, i>> \in { fi \in fired \X (1..4) :
                       /\ fi[2] <= Len(ProcNamed(fi[1]).body)
                       /\ Term(ProcNamed(fi[1]).body[fi[2]].t) = t
                       /\ Eval(kernel, base, ProcNamed(fi[1]).body[fi[2]].g) # 0 } }

\* C1: every fired sequential process reads every register at the value
\* committed when the NBA sweep began: no register changes while the sweep is
\* running, and a register that changes at the commit takes the value its
\* assignment has on the pre-sweep values (r0 = 0: r2 <- r0 + 1 commits 1,
\* the next tick commits 11)
NBAReadsCommitted ==
  /\ [](pc = "ff" => \A t \in Terminals : IsReg(t) => value[t] = nbaBase[t])
  /\ [][\A t \in Terminals :
          (IsReg(t) /\ value'[t] # value[t] /\ WrittenByFired(t))
             => value'[t] \in AssignedFrom(nbaBase, t)]_vars
\* the first tick of the r0/r1/r2 design has committed: r2 = 0 + 1, r1 = old r0
NBAFirstTickCommitted ==
  /\ design = "nba" /\ pc = "idle" /\ err = "none"
  /\ value["r0"] = 10 /\ value["r1"] = 0 /\ value["r2"] = 1

\* ---- one pass of the combinational processes, as a function of the values
NoPending == [t \in Terminals |-> NoneVal]
CombOrder(k) == IF k = "exector" THEN AlwaysCombFunctions ELSE RegionComb

\* the statements of one body, staged with the kernel's own staging rule
RECURSIVE StageBody(_, _, _, _, _)
StageBody(k, val, pend, body, i) ==
  IF i > Len(body) THEN pend
  ELSE LET st == body[i]
           v  == Eval(k, val, st.e)
           p2 == IF Eval(k, val, st.g) = 0 \/ PortDir(st.t) = "in" THEN pend
                 ELSE IF k = "exector" THEN Signal_set(val, pend, st.t, v)
                 ELSE Signal_write(pend, st.t, v)
       IN  StageBody(k, val, p2, body, i + 1)

RECURSIVE StageAll(_, _, _, _, _)
StageAll(k, val, pend, procs, j) ==
  IF j > Len(procs) THEN pend
  ELSE StageAll(k, val, StageBody(k, val, pend, ProcNamed(procs[j]).body, 1), procs, j + 1)

\* re-evaluating every combinational process on val stages no wire value
\* that differs from the committed one, so a commit changes no wire
CombSettled(k, val) ==
  LET p == StageAll(k, val, NoPending, CombOrder(k), 1)
  IN  \A t \in Terminals : (~IsReg(t) /\ p[t] # NoneVal) => p[t] = val[t]

\* the sweep is about to invoke a sequential process
AboutToFire ==
  /\ pc = "ff"
  /\ IF kernel = "exector" THEN idx <= Len(triggered)
     ELSE /\ idx <= Len(RegionFF)
          /\ IsTriggered(value, snap_cycle, snap_delta, ProcNamed(RegionFF[idx]).trig)

\* C2: the Active region finishes before the sequential evaluation: a
\* sequential process that is about to run finds every wire settled by the
\* combinational processes for the committed clock, input and register values
ActiveBeforeSequential == AboutToFire => CombSettled(kernel, value)

\* the latest clock()/half_clock() call returned without raising and the test
\* code has not written since
Returned == pc = "idle" /\ steps > 0 /\ drives = 0 /\ err = "none"

\* C3: when a step returns without error the design is at a combinational
\* fixed point: one more pass of every combinational process over the
\* committed state, followed by the commit, changes no wire
CombFixedPointAtReturn == Returned => CombSettled(kernel, value)

\* the edge predicate of one trigger between the values the half step began
\* with and the committed values now
EdgeBetween(base, val, tr) ==
  IF tr.edge = "POS" THEN base[Term(tr.sig)] = 0 /\ val[Term(tr.sig)] # 0
  ELSE base[Term(tr.sig)] # 0 /\ val[Term(tr.sig)] = 0

\* C4: a sequential process fires in a step if and only if one of its
\* declared triggers sees its edge between the cycle snapshot and the
\* committed value of the trigger's terminal, also through a port alias and
\* on a wire driven by combinational logic
FiresIffEdge ==
  Returned =>
    \A i \in 1..Len(D.ff) :
       (D.ff[i].name \in fired) <=>
          (\E j \in 1..Len(D.ff[i].trig) : EdgeBetween(cycleBase, value, D.ff[i].trig[j]))

\* C5: the multiple-drivers error is raised exactly when a process writes a
\* signal that a different process has already written in the same tick;
\* repeated writes by one process, and writes by distinct processes in
\* different ticks, never raise it
MultipleDriversSameTick ==
  lastDrive = "" =>
    ((err = "SignalWriteConflict") <=> (\E x \in Names : Cardinality(wrote[x]) >= 2))

\* the kind of the terminal of x does not match the phase of process f
KindMismatch(f, x) == (IsCombName(f) /\ IsReg(x)) \/ (IsFFName(f) /\ ~IsReg(x))

\* C6: a write by an executing process is accepted only if the kind of the
\* target's terminal matches the process phase: a combinational write to a
\* register (or an output-reg alias) and a sequential write to a wire (or a
\* wire alias) raise SignalInvalidAccess and the step call aborts with it
PhaseKindLegality ==
  [][\A x \in Names : \A f \in wrote'[x] \ wrote[x] :
        KindMismatch(f, x) => (err' = "SignalInvalidAccess" /\ pc' = "idle")]_vars

\* x is, or resolves to, an external signal: a wire declared on the testbench
IsExternal(x) == D.sigs[Term(x)].tb /\ D.sigs[Term(x)].kind = "wire"

\* C7: a write issued while no process is executing is accepted only if its
\* target is an external signal; a process-less write to any other wire, to
\* an alias of a non-external signal or to a register raises an error
\* (WriteOutsideProcess)
ProcessLessWriteOnlyExternal ==
  (pc = "idle" /\ lastDrive # "" /\ ~IsExternal(lastDrive)) => err # "none"

\* the processes that wrote terminal t in this half step, directly or
\* through any alias
TerminalWriters(t) == UNION { wrote[x] : x \in {n \in Names : Term(n) = t} }

\* C8: driver uniqueness is decided on the terminal signal: when two
\* distinct processes write the same terminal wire in one tick, directly or
\* through different (possibly chained) aliases, the multiple-drivers error
\* is raised as if both had written the terminal directly
DriverUniquenessOnTerminal ==
  lastDrive = "" =>
    \A t \in Terminals :
       (~IsReg(t) /\ Cardinality(TerminalWriters(t)) >= 2) => err = "SignalWriteConflict"

\* the cap on the passes of the combinational loop
PassCap == IF kernel = "exector" THEN max_comb_loops ELSE max_iterations

\* some pass among the first n passes from (val, pend) changes no wire
RECURSIVE ConvergesWithin(_, _, _, _)
ConvergesWithin(k, val, pend, n) ==
  IF n = 0 THEN FALSE
  ELSE LET p == StageAll(k, val, pend, CombOrder(k), 1)
           c == IF k = "exector" THEN UpdateWires(val, p) ELSE Commit(val, p, WireList)
       IN  IF c.value = val THEN TRUE
           ELSE ConvergesWithin(k, c.value, c.pending, n - 1)

\* the combinational loop of the step has just returned
CombLoopReturned == IF kernel = "exector" THEN pc = "regs" ELSE pc = "ff"

\* C9: a step raises SignalUnstableError (DidNotConverge) exactly when its
\* combinational passes reach no pass without a wire change within the cap:
\* the loop returns only for a design that converges within the cap, the
\* error is raised only for one that does not, and the oscillator
\* osc <- not osc with a cap of 4 raises within the step
DidNotConvergeExactly ==
  /\ [](CombLoopReturned => ConvergesWithin(kernel, combBase.value, combBase.pending, PassCap))
  /\ []((err = "SignalUnstableError" /\ lastDrive = "")
          => ~ConvergesWithin(kernel, combBase.value, combBase.pending, PassCap))
  /\ ((design = "osc" /\ pc # "idle") ~> (err = "SignalUnstableError"))
\* the step on the oscillator design was aborted by the error
OscillatorRaised ==
  /\ design = "osc" /\ pc = "idle" /\ steps > 0 /\ lastDrive = ""
  /\ err = "SignalUnstableError"

\* the committed values after n complete passes from (val, pend), every pass
\* ending with the commit of every wire it staged
RECURSIVE PassesFrom(_, _, _, _)
PassesFrom(k, val, pend, n) ==
  IF n = 0 THEN val
  ELSE LET p == StageAll(k, val, pend, CombOrder(k), 1)
           c == [t \in Terminals |-> IF ~IsReg(t) /\ p[t] # NoneVal THEN p[t] ELSE val[t]]
           q == [t \in Terminals |-> IF ~IsReg(t) THEN NoneVal ELSE p[t]]
       IN  PassesFrom(k, c, q, n - 1)

\* C11: when a step aborts with SignalUnstableError (DidNotConverge) the
\* signal store is the state of the last completed pass: every wire holds the
\* value committed at the end of the last of the max_comb_loops passes and no
\* wire is left with a staged value of a partially applied pass
AbortLeavesLastPass ==
  (pc = "idle" /\ err = "SignalUnstableError" /\ lastDrive = "") =>
    \A t \in Terminals :
       ~IsReg(t) =>
          /\ value[t] = PassesFrom(kernel, combBase.value, combBase.pending, PassCap)[t]
          /\ pending[t] = NoneVal

\* C12: the 4-bit counter: whenever a call returns, count_out reads the
\* number of rising clock edges taken with enable high since reset was
\* deasserted, modulo 16 (15 wraps to 0), for every enable sequence
CounterCountsEnabledEdges ==
  (design = "counter" /\ Returned) => Read(kernel, value, "count_out") = tally % 16
\* sixteen enabled edges have been counted and the output is back at 0
CounterWrapped ==
  /\ design = "counter" /\ Returned /\ tally = 16
  /\ Read(kernel, value, "count_out") = 0 /\ Read(kernel, value, "count") = 0

\* C13: the three-stage shift register: whenever a call returns, every stage
\* holds the value the stage before it held when the latest rising edge was
\* taken, stage0 holds the din driven for that edge and dout shows stage2,
\* whatever the order of the three assignments (din 1,0,1,1,0 gives dout
\* 0,0,1,0,1)
ShiftMovesOneStage ==
  (design \in {"shift", "shiftrev"} /\ Returned) =>
     /\ value["stage2"] = edgeBase["stage1"]
     /\ value["stage1"] = edgeBase["stage0"]
     /\ value["stage0"] = edgeBase["din"]
     /\ value["dout"] = value["stage2"]
\* the fifth clock of the pattern 1,0,1,1,0 has returned: the stages hold
\* 0,1,1 and dout shows the third input
ShiftPatternDone ==
  /\ design = "shift" /\ Returned /\ steps = 5 /\ call.kind = 2
  /\ edgeBase["din"] = 0 /\ edgeBase["stage0"] = 1 /\ edgeBase["stage1"] = 1
  /\ edgeBase["stage2"] = 0 /\ edgeBase["dout"] = 0
  /\ value["stage0"] = 0 /\ value["stage1"] = 1 /\ value["stage2"] = 1 /\ value["dout"] = 1

\* process i of the design is triggered on an edge of the clock wire
OnClock(i) == \E j \in 1..Len(D.ff[i].trig) : Term(D.ff[i].trig[j].sig) = "clk"

\* C14: a full-clock call is two complete half steps: when clock() returns
\* the clock wire has been toggled twice and is back at the level the call
\* found it at, and every process triggered on POS(clk) and every process
\* triggered on NEG(clk) has run exactly once; the second toggle is made in
\* exactly the state in which a half_clock() call over the first half step
\* returns, its register commit and re-stabilisation done, and from there the
\* call proceeds as a second half_clock() call does
FullClockIsTwoHalfSteps ==
  /\ []((Returned /\ call.kind = 2) =>
          /\ call.toggles = 2
          /\ Read(kernel, value, "clk") = call.clk0
          /\ \A i \in 1..Len(D.ff) : OnClock(i) => call.ran[D.ff[i].name] = 1)
  /\ [][(halves = 2 /\ halves' = 1) =>
          LET u == UpdateRegs(value, pending)
              h == HalfClockPrelude(u.value, u.pending, prev_trig)
          IN  /\ pc = "regs" /\ ~IsWrite(u.value, prev_write)
              /\ \A t \in Reached({"REG"}) : u.pending[t] = NoneVal
              /\ pc' = "extract" /\ idx' = 1 /\ iter' = 0
              /\ <<value', pending', prev_trig', prev_write'>>
                    = <<h.value, h.pending, h.prev_trig, h.prev_write>>
              /\ UNCHANGED << writers, triggered >>]_vars
\* the clock() call on the dual-edge design has returned after reset was
\* released: the rising edge advanced pos_reg, the falling edge copied it
FullClockRanBothEdges ==
  /\ design = "dualedge" /\ Returned /\ call.kind = 2 /\ call.toggles = 2
  /\ call.ran["pos_logic"] = 1 /\ call.ran["neg_logic"] = 1
  /\ value["pos_reg"] = 1 /\ value["neg_reg"] = 1 /\ value["neg_wire"] = 1

\* C15: a value the test code drives on an external wire before a call takes
\* effect in that call: the call commits it at its entry, before any process
\* runs; the process triggered on POS(clk) captures the value driven for that
\* edge, and the output of the capturing register shows it when the call
\* returns (src = 5, 7, 1 before three clocks gives dst = 5, 7, 1)
DrivenValueTakesEffectInCall ==
  /\ [][(pc = "idle" /\ pc' # "idle") =>
          \A t \in Terminals :
             (IsExternal(t) /\ t # "clk" /\ pending[t] # NoneVal) => value'[t] = pending[t]]_vars
  /\ []((design = "passthrough" /\ Returned) =>
          /\ value["reg"] = IF edgeBase["reset"] # 0 THEN 0 ELSE edgeBase["src"]
          /\ value["dst"] = value["reg"])
\* the third clock has returned: 1 was driven over a captured 7 and shows on dst
DrivenValueShown ==
  /\ design = "passthrough" /\ Returned /\ steps = 3 /\ call.kind = 2
  /\ edgeBase["reset"] = 0 /\ edgeBase["src"] = 1 /\ edgeBase["reg"] = 7 /\ edgeBase["dst"] = 7
  /\ value["reg"] = 1 /\ value["dst"] = 1

\* no driver record is held: neither kernel has an entry for any object
NoDriverRecord ==
  /\ \A x \in Names : writers[x] = ""
  /\ \A x \in Names : write_log[x] = {}

\* C16: the Write Log is empty at every step boundary: when a half_clock or
\* clock call returns, no (signal -> process) record made during it remains
WriteLogEmptyAtBoundary == Returned => NoDriverRecord

\* a step call has raised (illegal write, multiple drivers, non-convergence)
StepAborted == pc = "idle" /\ steps > 0 /\ err # "none" /\ lastDrive = ""

\* C17: when a step aborts with an error the Write Log is cleared as part of
\* the abort, so the next step starts arbitration from an empty log
AbortClearsWriteLog == StepAborted => NoDriverRecord

\* C18: at every step boundary no wire and no register has a pending value:
\* everything staged during the step, on module wires, testbench wires and
\* registers (also through an output-reg alias), is committed when it returns
NoPendingAtBoundary == Returned => \A t \in Terminals : pending[t] = NoneVal

\* v fits in the width of signal t
Fits(v, t) == 0 <= v /\ v < Pow2(Width(t))

\* C19: for every signal, from construction onward and after any sequence of
\* writes, slice writes and commits, the committed value lies in
\* 0 .. 2^width - 1 and a pending value fits in the width as well; the
\* value given as init at construction is included
ValuesFitWidth ==
  \A t \in Terminals :
     /\ Fits(value[t], t)
     /\ pending[t] # NoneVal => Fits(pending[t], t)

\* what the public read API returns: the whole value and every bit range,
\* for the signal and each of its aliases
Observed ==
  [x \in Names |->
     [ whole |-> Read(kernel, value, x),
       bits  |-> [r \in Indexes \X Indexes |->
                    Signal_read_bits(kernel, value, x, r[1], r[2])] ]]

\* C20: pending values are never observable: a full write or a slice write,
\* through the signal or an alias, changes the result of no read and no
\* slice read of the signal or of any alias; only a commit does
PendingNeverObservable ==
  [][Observed' = Observed \/ ~(UnitWriteStep \/ UnitWriteBitsStep)]_vars
\* a value differing from the committed one is staged on the widest signal,
\* and the reads of the signal and of its alias still return the committed one
StagedButUnread ==
  /\ design = "unit" /\ err = "none"
  /\ Width("s") = MaxWidth /\ value["s"] = 0 /\ pending["s"] = Pow2(MaxWidth) - 2
  /\ Observed["q"].whole = 0 /\ Observed["s"].bits[<<MaxWidth - 1, 0>>] = Got(0)

\* C21: for every signal of width w and every integer v, also v > 2^w - 1
\* and negative v, write(v); commit(); read() returns v & (2^w - 1): whenever
\* a write of v is accepted, committing the signal and reading it, through
\* the signal or the alias written, gives the low w bits of v
WriteCommitReadMasks ==
  [][\A x \in Names : \A v \in WriteValues :
        (UnitWrite(x, v) /\ err' = "none") =>
           LET c == Signal_commit(kernel, value', pending', Term(x))
           IN  /\ Read(kernel, c.value, x) = Mask(v, Width(x))
               /\ Read(kernel, c.value, Term(x)) = Mask(v, Width(x))
               /\ c.pending[Term(x)] = NoneVal]_vars
\* the widest signal, constructed with 0, reads all ones: the low bits of a
\* written -1 have been committed
AllOnesCommitted ==
  /\ design = "unit" /\ net.sigs["s"].init = 0 /\ Width("s") = MaxWidth
  /\ pending["s"] = NoneVal /\ Read(kernel, value, "s") = Pow2(MaxWidth) - 1

\* C22: for every signal, every valid bit range r and every integer v, also
\* negative and wider than r: write_bits(r, v); commit(); read_bits(r)
\* returns v & mask(|r|), and every bit of the signal outside r reads as it
\* did before the slice write (made with nothing staged)
SliceWriteCommitRead ==
  [][\A x \in Names : \A a \in Indexes : \A b \in Indexes : \A v \in WriteValues :
        ( /\ pending[Term(x)] = NoneVal /\ err' = "none"
          /\ ~InvalidRange(x, a, b) /\ UnitWriteBits(x, a, b, v) ) =>
           LET c == Signal_commit(kernel, value', pending', Term(x))
           IN  /\ Signal_read_bits(kernel, c.value, x, a, b) = Got(v % Pow2(Hi(a, b) - Lo(a, b) + 1))
               /\ \A i \in 0 .. Width(x) - 1 :
                     (i < Lo(a, b) \/ i > Hi(a, b)) =>
                        Signal_read_bits(kernel, c.value, x, i, i)
                          = Signal_read_bits(kernel, value, x, i, i)]_vars
\* the widest signal, constructed all ones, has had its lowest bit cleared
\* and keeps every other bit
LowBitCleared ==
  /\ design = "unit" /\ net.sigs["s"].init = Pow2(MaxWidth) - 1 /\ Width("s") = MaxWidth
  /\ pending["s"] = NoneVal /\ value["s"] = Pow2(MaxWidth) - 2
  /\ Signal_read_bits(kernel, value, "s", 0, 0) = Got(0)
  /\ Signal_read_bits(kernel, value, "s", MaxWidth - 1, 1) = Got(Pow2(MaxWidth - 1) - 1)

\* the value a commit of t would install: the staged one, else the committed
Staged(val, pend, t) == IF pend[t] # NoneVal THEN pend[t] ELSE val[t]

\* C23: staged writes accumulate: a write_bits made before the commit merges
\* into the pending value left by the preceding writes and falls back to the
\* committed value only when nothing is pending: after the commit the written
\* range holds the written value and every other bit holds the last staged,
\* otherwise the committed, value
StagedWritesAccumulate ==
  [][\A x \in Names : \A a \in Indexes : \A b \in Indexes : \A v \in WriteValues :
        (UnitWriteBits(x, a, b, v) /\ err' = "none" /\ ~InvalidRange(x, a, b)) =>
           LET t == Term(x)
               c == Signal_commit(kernel, value', pending', t)
           IN  /\ BitsOf(c.value[t], Lo(a, b), Hi(a, b)) = v % Pow2(Hi(a, b) - Lo(a, b) + 1)
               /\ \A i \in 0 .. Width(x) - 1 :
                     (i < Lo(a, b) \/ i > Hi(a, b)) =>
                        BitsOf(c.value[t], i, i) = BitsOf(Staged(value, pending, t), i, i)]_vars

\* some index of the key [a:b] lies outside 0 .. width - 1
OutOfRange(x, a, b) ==
  a < 0 \/ b < 0 \/ a >= Width(x) \/ b >= Width(x)

\* C24: read_bits and write_bits take a range with its bounds in either order,
\* with the same result, and reject with the invalid-range error
\* (AttributeError "Invalid bit range") every single index and every range
\* that has an index >= width or < 0, staging nothing
RangeSwappedOrRejected ==
  /\ [](\A x \in Names : \A a \in Indexes : \A b \in Indexes :
          /\ Signal_read_bits(kernel, value, x, a, b) = Signal_read_bits(kernel, value, x, b, a)
          /\ OutOfRange(x, a, b) <=>
               Signal_read_bits(kernel, value, x, a, b) = Failed("AttributeError"))
  /\ [][\A x \in Names : \A a \in Indexes : \A b \in Indexes : \A v \in WriteValues :
          /\ a < b => (UnitWriteBits(x, a, b, v) <=> UnitWriteBits(x, b, a, v))
          /\ (PortDir(x) # "in" /\ UnitWriteBits(x, a, b, v)) =>
                IF OutOfRange(x, a, b)
                THEN err' = "AttributeError" /\ pending' = pending /\ value' = value
                ELSE err' = "none"]_vars
\* a slice write to a register was rejected for its range while a value was
\* staged, and the staged value is still there
RangeRejectedWhileStaged ==
  /\ design = "unit" /\ kernel = "region" /\ IsReg("s") /\ err = "AttributeError"
  /\ pending["s"] = 1 /\ value["s"] = 0
  /\ Signal_read_bits(kernel, value, "s", Width("s"), 0) = Failed("AttributeError")
  /\ Signal_read_bits(kernel, value, "s", 0, -1) = Failed("AttributeError")

\* the snapshot slots of the signal of src/hdlproto/signal.py
RegionSlots == {"cycle", "delta", "epsilon"}

\* C25: the cycle, delta and epsilon slots are independent: snapshot_X()
\* copies the committed value into slot X and leaves the other two slots
\* unchanged; is_X_changed() is true exactly when the committed value differs
\* from slot X, so it is false right after snapshot_X() and becomes true only
\* by a commit that changes the value
SnapshotSlotsIndependent ==
  /\ [](\A t \in Terminals : \A X \in RegionSlots :
          IsChanged(kernel, value, SlotState, t, X) <=> value[t] # SlotState[X][t])
  /\ [][\A t \in Terminals : \A X \in RegionSlots :
          /\ UnitSnapshot(t, X) =>
                /\ SlotState'[X][t] = value[t]
                /\ \A Y \in RegionSlots \ {X} : SlotState'[Y] = SlotState[Y]
                /\ ~IsChanged(kernel, value', SlotState', t, X)
          /\ ( /\ ~IsChanged(kernel, value, SlotState, t, X)
               /\ IsChanged(kernel, value', SlotState', t, X) ) =>
                (UnitCommitStep /\ value'[t] # value[t])]_vars
\* the three slots of one signal hold three different values, and exactly the
\* epsilon slot, taken last, shows no change
ThreeSlotsDiffer ==
  /\ design = "unit" /\ kernel = "region" /\ Width("s") = MaxWidth
  /\ snap_cycle["s"] = 1 /\ snap_delta["s"] = 2 /\ snap_eps["s"] = 0 /\ value["s"] = 0
  /\ IsChanged(kernel, value, SlotState, "s", "cycle")
  /\ IsChanged(kernel, value, SlotState, "s", "delta")
  /\ ~IsChanged(kernel, value, SlotState, "s", "epsilon")

\* the slot the edge test compares with: the cycle snapshot, which in the
\* exector is the value stored for the trigger
EdgeSlot(t) == IF kernel = "region" THEN snap_cycle[t] ELSE prev_trig[t]

\* C26: edge_matches(POS) holds exactly when the cycle snapshot is zero and
\* the committed value is nonzero, edge_matches(NEG) exactly when the snapshot
\* is nonzero and the committed value is zero; any nonzero value of a
\* multi-bit signal counts as high, and neither edge matches when the value
\* did not cross zero
EdgeMatchesZeroCrossing ==
  \A t \in Terminals :
     LET now == Read(kernel, value, t)
         pos == SignalEdgeMatches(kernel, value, SlotState, t, "POS")
         neg == SignalEdgeMatches(kernel, value, SlotState, t, "NEG")
     IN  /\ pos <=> (EdgeSlot(t) = 0 /\ now # 0)
         /\ neg <=> (EdgeSlot(t) # 0 /\ now = 0)
         /\ ((EdgeSlot(t) = 0) = (now = 0)) => (~pos /\ ~neg)
\* a multi-bit signal went from 0 to 2: a rising edge although bit 0 is low
MultiBitRisingEdge ==
  /\ design = "unit" /\ Width("s") = MaxWidth /\ net.sigs["s"].init = 0
  /\ EdgeSlot("s") = 0 /\ value["s"] = 2
  /\ SignalEdgeMatches(kernel, value, SlotState, "s", "POS")
  /\ ~SignalEdgeMatches(kernel, value, SlotState, "s", "NEG")

\* C27: for every port alias p over terminal t, in every reachable state,
\* snapshot_cycle, snapshot_delta, snapshot_epsilon, is_cycle_changed,
\* is_delta_changed, is_epsilon_changed, edge_matches, width and read on p have
\* the effect and the result of the same operation on t
AliasRefinesTerminal ==
  /\ [](\A p \in Ports :
          /\ Read(kernel, value, p) = Read(kernel, value, Term(p))
          /\ Width(p) = D.sigs[Term(p)].width
          /\ \A e \in {"POS", "NEG"} :
                EdgeMatches(kernel, value, SlotState, p, e)
                  = EdgeMatches(kernel, value, SlotState, Term(p), e)
          /\ \A X \in RegionSlots :
                IsChanged(kernel, value, SlotState, p, X)
                  = IsChanged(kernel, value, SlotState, Term(p), X))
  /\ [][\A p \in Ports : \A X \in RegionSlots :
          UnitSnapshot(p, X) <=> UnitSnapshot(Term(p), X)]_vars

\* the aliases constructed over another alias
Chained == {x \in Ports : D.ports[x].over \in Ports}
\* the signal at the end of the chain of constructor arguments below x
RECURSIVE Root(_)
Root(x) == IF x \in Ports THEN Root(D.ports[x].over) ELSE x

InputAliases == {x \in Ports : D.ports[x].dir = "in"}
\* C29: a whole-value or slice write through an input alias, direct (p) or
\* over another input alias (pp), ends in an error and leaves the committed
\* and the pending value of the terminal as they were
InputAliasWriteRefused ==
  [][\A x \in InputAliases : \A v \in WriteValues :
        (UnitWrite(x, v) \/ \E a \in Indexes : \E b \in Indexes : UnitWriteBits(x, a, b, v))
           => /\ err' \in {"AttributeError", "TypeError"}
              /\ value' = value
              /\ pending' = pending]_vars
\* a slice write through an input alias was refused while a value is staged
InputSliceRefused ==
  design = "unit" /\ InputAliases # {} /\ err = "TypeError" /\ pending["s"] # NoneVal

AliasKindMismatch(cls, target) == IF cls = "outreg" THEN ~IsReg(target) ELSE IsReg(target)
\* C30: constructing an input or an output-wire alias whose terminal is a
\* register, or an output-reg alias whose terminal is a wire, directly or
\* over an alias, fails with an error and creates no alias
AliasKindMatchesTerminal ==
  [][\A a \in AliasPool \ Ports : \A cls \in {"in", "out", "outreg"} : \A target \in Names :
        Construct(a, cls, target) /\ AliasKindMismatch(cls, target)
           => err' = "TypeError" /\ net' = net]_vars
\* an input alias exists over a register
InputOverRegister ==
  design = "construct" /\ \E x \in Ports : D.ports[x].dir = "in" /\ IsReg(x)

\* C31: testcase(name) invokes exactly the one test case declared under that
\* name, once; testcase() without a name invokes every declared test case
\* exactly once, in the order of their declaration on the testbench
TestcasesRunInDeclarationOrder ==
  [][\A name \in {TestcaseNames[i] : i \in DOMAIN TestcaseNames} \cup {"None"} :
        Testcase(name) =>
           testcase_run'.ran = IF name = "None" THEN net.cases
                               ELSE IF IsDeclared(name) THEN << name >> ELSE << >>]_vars

\* the integers a signed signal of width w can read as
SignedRange(w) == -Pow2(w - 1) .. Pow2(w - 1) - 1
\* the read the writes 6, 17, -7, -15 give at width 4
ReadsAtWidth4(sign, v) ==
  CASE v = 6   -> 6
    [] v = 17  -> 1
    [] v = -7  -> IF sign THEN -7 ELSE 9
    [] v = -15 -> 1
\* C32: a signed signal of width w reads the committed low w bits in two's
\* complement: the read lies in -2^(w-1) .. 2^(w-1) - 1 and is congruent to
\* the committed value modulo 2^w, and a committed write of v reads back as
\* the integer of that range congruent to v; at width 4 the writes 6, 17,
\* -7, -15 read back 6, 1, -7, 1, and 6, 1, 9, 1 on an unsigned signal
SignedReadTwosComplement ==
  /\ [](\A s \in Terminals :
          IsSigned(s) =>
             /\ Read(kernel, value, s) \in SignedRange(Width(s))
             /\ (Read(kernel, value, s) - value[s]) % Pow2(Width(s)) = 0)
  /\ [][\A s \in Terminals : \A v \in SignedWriteValues :
          UnitWrite(s, v) =>
             LET c == Signal_commit(kernel, value', pending', s)
                 r == Read(kernel, c.value, s)
             IN  /\ IsSigned(s) => (r \in SignedRange(Width(s)) /\ (r - v) % Pow2(Width(s)) = 0)
                 /\ ~IsSigned(s) => r = Mask(v, Width(s))
                 /\ (Width(s) = 4 /\ v \in {6, 17, -7, -15}) => r = ReadsAtWidth4(IsSigned(s), v)]_vars
\* a signed signal of width 4 reads -7 after the commit of a write
NegativeSevenRead ==
  /\ design = "signed" /\ Terminals = {"s"} /\ IsSigned("s") /\ Width("s") = 4
  /\ net.sigs["s"].init = 0 /\ pending["s"] = NoneVal /\ value["s"] = 9
  /\ Read(kernel, value, "s") = -7

\* C33: the construction of a signal with sign and width 1 fails, for a wire
\* and for a register, and creates no signal; unsigned width 1 and signed
\* width >= 2 are accepted
SignedWidthOneRefused ==
  [][\A kind \in {"wire", "reg"} : \A sign \in BOOLEAN : \A w \in 1 .. MaxSignedWidth :
        \A i \in InitValues(w) :
           SignalConstruct("s", kind, sign, w, i) =>
              IF sign /\ w = 1
              THEN err' = "ValueError" /\ net' = net /\ value' = value
              ELSE /\ err' = "none" /\ Terminals' = {"s"}
                   /\ net.sigs'["s"].kind = kind /\ net.sigs'["s"].sign = sign
                   /\ net.sigs'["s"].width = w]_vars
\* the construction was refused and there is no signal
SignedWidthOneRaised ==
  design = "signed" /\ err = "ValueError" /\ Terminals = {}

\* C34: on a signal array or a port array, arr[i, range] reads as
\* arr[i][range]; arr[i, range] = v is the slice write of v to the range of
\* element i alone, staged until the commit; arr[i] = v is rejected with a
\* TypeError and leaves the array and its elements as they were
ArrayTupleAccess ==
  /\ [](\A arr \in Arrays : \A i \in 1 .. 2 : \A a \in ArrayIndexes : \A b \in ArrayIndexes :
          ~net.arrays[arr][i].int =>
             SignalArray_getitem(value, arr, i, a, b)
               = Signal_read_bits(kernel, value, net.arrays[arr][i].name, a, b))
  /\ [][\A arr \in Arrays : \A key \in ArrayKeys : \A v \in ArrayValues :
          SignalArray_setitem(arr, key, v) =>
             IF key.tuple
             THEN ~net.arrays[arr][key.i].int =>
                     /\ pending' = Signal_write_bits(value, pending, net.arrays[arr][key.i].name,
                                                     key.a, key.b, v)
                     /\ value' = value /\ net' = net
             ELSE err' = "TypeError" /\ net' = net /\ value' = value /\ pending' = pending]_vars

\* a mark for a signal no process of a list has written
Untouched == NoneVal - 1
\* what the processes procs stage, run on the committed values in that order
RefStaged(procs) == StageAll(kernel, value, [t \in Terminals |-> Untouched], procs, 1)
\* every combinational process of the pass in progress has run
PassDone == pc = "comb" /\ idx > Len(CombOrder(kernel))
\* every sequential process of the sweep in progress has run
SweepDone ==
  pc = "ff" /\ idx > (IF kernel = "exector" THEN Len(triggered) ELSE Len(RegionFF))
\* the sequential processes the sweep in progress invokes
FiredNow ==
  IF kernel = "exector" THEN {triggered[i] : i \in 1..Len(triggered)}
  ELSE {f \in {RegionFF[i] : i \in 1..Len(RegionFF)} :
          IsTriggered(value, snap_cycle, snap_delta, ProcNamed(f).trig)}
\* the order of the declaration of the design
RefComb == NamesOf(OrderDesigns[design].comb)
RefFF == NamesOf(OrderDesigns[design].ff)

\* C35: in a design where every signal has one driver, the order of the
\* combinational processes within a pass and the order of the fired
\* sequential processes do not affect the state: whatever the order, a pass
\* and a sweep stage for every signal they write the value the processes
\* stage in the order of the declaration, so the commits that follow, and
\* with them the committed state at the end of the step, are the same
OrderIndependent ==
  /\ PassDone =>
        \A t \in Terminals :
           RefStaged(RefComb)[t] # Untouched => pending[t] = RefStaged(RefComb)[t]
  /\ SweepDone =>
        LET ref == RefStaged(SelectSeq(RefFF, LAMBDA f : f \in FiredNow))
        IN  \A t \in Terminals : ref[t] # Untouched => pending[t] = ref[t]
\* both sequential processes of the chain have run, in the order opposite to
\* their declaration, as have the combinational processes; r1 has staged the
\* committed r0
ReversedSweepDone ==
  /\ design = "chain" /\ SweepDone /\ FiredNow = {"ff_a", "ff_b"}
  /\ NamesOf(net.ff) = <<"ff_b", "ff_a">> /\ NamesOf(net.comb) = <<"stage_b", "stage_a">>
  /\ value["r0"] = 2 /\ pending["r1"] = 2 /\ pending["r0"] = 3

\* C36: commits are confined to their region: the commit of the wires that
\* ends a combinational pass changes the committed value of no register, also
\* with an alias over a register with a staged value among the wire-side
\* entries, and the commit of the registers changes the committed value of no
\* wire
CommitsConfined ==
  /\ [][(ExectorUpdateWires \/ RegionCommitWires) =>
          \A t \in RegList : value'[t] = value[t]]_vars
  /\ [][RegionNBA => \A t \in WireList : value'[t] = value[t]]_vars
  /\ [](kernel = "exector" /\ pc = "regs" =>
          \A t \in WireList : UpdateRegs(value, pending).value[t] = value[t])

\* C37: within one step a sequential process is invoked at most once: no
\* process is invoked that was invoked before in the step in progress,
\* whatever the number of iterations of the stabilization loop and of
\* matching triggers
InvokedOncePerStep ==
  /\ [][ExectorAlwaysFF => triggered[idx] \notin fired]_vars
  /\ [][(RegionAlwaysFF /\ IsTriggered(value, snap_cycle, snap_delta,
                                         ProcNamed(RegionFF[idx]).trig)) =>
          RegionFF[idx] \notin fired]_vars

\* the errors with which the arbiter rejects a write
Rejections == {"SignalInvalidAccess", "SignalWriteConflict", "RuntimeError"}
\* the process the kernel runs in the step from the present state has a body
\* of one statement
OneWriteProcess ==
  \/ ExectorAlwaysFF /\ Len(ProcNamed(triggered[idx]).body) = 1
  \/ ExectorAlwaysComb /\ Len(ProcNamed(AlwaysCombFunctions[idx]).body) = 1
  \/ RegionAlwaysFF /\ Len(ProcNamed(RegionFF[idx]).body) = 1
  \/ RegionAlwaysComb /\ Len(ProcNamed(RegionComb[idx]).body) = 1
  \/ \E d \in D.drives : ExectorDrive(d[1], d[2]) \/ RegionDrive(d[1], d[2])

\* C38: a write the arbiter rejects stages nothing: when a process whose
\* body is one write, or a write by test code, ends with an error of the
\* arbiter, the staged and the committed values are those from before it
RejectedWriteStagesNothing ==
  [][(OneWriteProcess /\ err' \in Rejections) => (pending' = pending /\ value' = value)]_vars

\* C39: after a step that aborts with an error raised inside a sequential
\* process no sequential process remains scheduled: between two steps the
\* list of triggered processes is empty, and every process a step invokes has
\* a trigger that fires in that step and was not invoked in the step before
NoStaleSchedule ==
  /\ [](kernel = "exector" /\ pc = "idle" => triggered = << >>)
  /\ [][ExectorAlwaysFF =>
          /\ triggered[idx] \notin fired
          /\ IsAlwaysFFTriggered(value, prev_trig, prev_write,
                                 ProcNamed(triggered[idx]).trig, 1, "false") = "true"]_vars

\* C40: the current-process slot is set only while a process body runs: in
\* every state between two invocations and between two steps, also after a
\* process has raised an error, the slot holds no process and no phase
SlotEmptyBetweenInvocations == cur = "None" /\ phase = "None"

\* C10: every step call terminates: a call in progress either returns or
\* raises after a bounded number of iterations
StepTerminates == (pc # "idle") ~> (pc = "idle")
====
